---- MODULE Spec2Model ----
(***************************************************************************)
(* Model of the rate-limited request scheduler (src/utils/rateLimiter.js), *)
(* the report job cache and the retrying SalesDrive request executor       *)
(* (src/services/reportDataService.js).                                    *)
(*                                                                         *)
(* Time is an integer clock `now` (the value Date.now() returns).  Every   *)
(* handler of the event loop is one action.  A handler that reads the      *)
(* clock more than once may see it tick between two reads: the index of    *)
(* the first read that sees the later value is an input of the action.     *)
(***************************************************************************)
EXTENDS Integers, Sequences, FiniteSets, TLC

\* ---------------------------------------------------------------- bounds
MaxTime == 5
MaxTasks == 5
MaxKeys == 2
MaxJobs == 2
\* The number of report builds among which a failing build is observed.
MaxBuilds == 2

\* The longest source-id list a report request selects.
MaxSources == 2
\* The largest number of extra requests an estimate is asked for.
MaxExtra == 3
\* The calls into the monthly scheduler, timer callbacks included, and the
\* timers it arms.
MaxRuns == 3
MaxTimers == 3

\* Configuration of the limiter (constructor options); the service runs it
\* with 20 requests per 60000 ms and a queue of 120, the model with small
\* values of the same shape.
MaxRequests == 2
IntervalMs == 3
QueueLimit == 2

\* Retry configuration of the SalesDrive executor; the delays (5000 ms base,
\* 1000 ms floor in the service) are given in clock units.
SALES_DRIVE_MAX_RETRY_ATTEMPTS == 3
SALES_DRIVE_RETRY_BASE_DELAY_MS == 2
MinRetryDelayMs == 1
\* The largest Retry-After hint a failed response carries, in clock units:
\* longer than the limiter interval, as a server may ask.
RetryAfterHint == 4

\* TTLs of the job cache (5 min and 30 s in the service), in clock units:
\* the success TTL is the longer one.
REPORT_JOB_TTL_MS == 2
REPORT_JOB_ERROR_TTL_MS == 1

\* The sleep of waitForAll between two looks at an idle-less limiter with
\* no cooldown (10 ms in the service): the smallest delay of the clock.
WAIT_FOR_ALL_POLL_MS == 1

\* The fixed windows of the quota tracker (one hour and one day in the
\* service, with limits 200 and 2000), in clock units: a day is a whole
\* number of hours, and the limiter admits more calls per hour and per day
\* than the limits.
SALES_DRIVE_HOURLY_WINDOW_MS == 2
SALES_DRIVE_HOURLY_LIMIT == 1
SALES_DRIVE_DAILY_WINDOW_MS == 4
SALES_DRIVE_DAILY_LIMIT == 2

VARIABLES
    now,                 \* the wall clock, Date.now()
    queue,               \* RateLimiter.queue: task ids awaiting admission
    requestTimestamps,   \* RateLimiter.requestTimestamps
    timer,               \* RateLimiter.timer: <<>> (null) or <<deadline>>
    isCoolingDown,       \* RateLimiter._isCoolingDown
    cooldownTriggered,   \* RateLimiter._cooldownTriggered
    lastDelayMs,         \* RateLimiter.lastDelayMs
    taskState,           \* per task: "new", "queued", "running", "settled",
                         \* "overflow" (schedule() rejected it)
    started,             \* history: [task, at] in the order of dispatch
    settlement,          \* the last operation settled with a known outcome:
                         \* what it did and what became of the promise
                         \* schedule() had returned for it
    onDelay,             \* the onDelay hook: whether it throws when called,
                         \* whether an exception of it was caught, whether
                         \* one escaped from _flushQueue
    nextTask,            \* id of the task the next schedule() call submits;
                         \* ids are given in the order of the schedule() calls
    reportJobs,          \* the Map reportJobs: key -> job id, 0 for no entry
    jobs,                \* the Job objects ever created, by id
    nextJob,             \* id of the next Job object createReportJob makes
    builderCalls,        \* history: how often workFactory was invoked per Job
    ret,                 \* the last getOrCreateReportJob call: its key, the
                         \* Job it returned and the status its caller reads
    nCalls,              \* parity of the number of getOrCreateReportJob calls
    call,                \* one logical rateLimitedSalesDriveRequest call:
                         \* pc, the attempt parameter, the limiter task of
                         \* the current attempt, the time the catch block
                         \* took the last failure, the end of the backoff
                         \* wait, the number of submissions, the error thrown
    lastError,           \* history: the error of the attempt that failed last
    salesDriveRetryState,    \* {triggered, maxDelayMs}: a retry occurred
    retrySnapshot,       \* the last result of consumeSalesDriveRetryFlag
    salesDriveHourlyWindow,  \* {startedAt, count} of the current hour
    salesDriveDailyWindow,   \* {startedAt, count} of the current day
    hourlyStats,         \* the last result of getHourlyStats, with the
                         \* function called (op) and its argument `now` (at)
    dailyStats,          \* the same for getDailyStats
    estimate,            \* the result of the last estimateWait call and its
                         \* argument, while the caller holds it: until the
                         \* next handler of the limiter or the next tick
    waiter,              \* one waitForAll() call: pc, and the end of the
                         \* delay() it awaits
    keyed,               \* the last two buildReportJobKey calls of a
                         \* controller: parameters and returned key
    schedulerState,      \* monthlyScheduleService: {timer, nextRunAt,
                         \* isRunning}; timer is 0 (null) or a handle
    eventLoop,           \* the setTimeout timers of the monthly scheduler
                         \* that are pending, and the next handle
    scheduleConfig,      \* the file monthly-schedule.json
    runs                 \* the calls into monthlyScheduleService, in the
                         \* order they began: kind, the await they stand
                         \* at, the config they loaded, their outcome

rlVars == <<queue, requestTimestamps, timer, isCoolingDown, cooldownTriggered,
            lastDelayMs, taskState, started, nextTask, settlement, onDelay>>

jcVars == <<reportJobs, jobs, nextJob, builderCalls, ret, nCalls>>

rxVars == <<call, lastError, salesDriveRetryState, retrySnapshot>>

qtVars == <<salesDriveHourlyWindow, salesDriveDailyWindow, hourlyStats, dailyStats>>

msVars == <<schedulerState, eventLoop, scheduleConfig, runs>>

clVars == <<estimate, waiter, keyed, msVars>>

vars == <<now, rlVars, jcVars, rxVars, qtVars, clVars>>

Tasks == 1..MaxTasks
Keys == 1..MaxKeys
JobIds == 1..MaxJobs

Max(a, b) == IF a >= b THEN a ELSE b
Min(a, b) == IF a <= b THEN a ELSE b

\* The value of the i-th Date.now() call of a handler that starts at clock
\* value t, when the clock ticks just before read number k.
ReadClock(t, i, k) == IF i >= k THEN t + 1 ELSE t

\* The tick positions a handler that starts at clock value t may see:
\* 2..4 a tick between two reads, 5 no tick while the handler runs.
TickPoints(t) == IF t < MaxTime THEN 2..5 ELSE {5}

\* ----------------------------------------------------------- QuotaTracker

\* alignToHour / alignToDay: the start of the local hour / day of timestamp
\* t; local hours and days are taken to start at the multiples of the
\* window lengths (no time zone offset, no DST change).
alignToHour(t) == t - (t % SALES_DRIVE_HOURLY_WINDOW_MS)

alignToDay(t) == t - (t % SALES_DRIVE_DAILY_WINDOW_MS)

\* A reset that moves the window start but keeps the count.
resetWindowKeepsCount(w, currentStart) == [w EXCEPT !.startedAt = currentStart]

\* The body of resetHourlyWindowIfNeeded / resetDailyWindowIfNeeded, given
\* the aligned start of the current window.
resetWindowIfNeeded(w, currentStart) ==
    IF currentStart # w.startedAt THEN [startedAt |-> currentStart, count |-> 0]
    ELSE w

resetHourlyWindowIfNeeded(w, t) == resetWindowIfNeeded(w, alignToHour(t))

resetDailyWindowIfNeeded(w, t) == resetWindowIfNeeded(w, alignToDay(t))

\* The stats object with `used` left unclamped.
statsOfUnclamped(w, limit, windowMs, t) ==
    [limit |-> limit, used |-> w.count, remaining |-> limit - w.count,
     resetAt |-> w.startedAt + windowMs,
     resetInMs |-> Max(w.startedAt + windowMs - t, 0)]

\* The object getHourlyStats / getDailyStats returns, computed from the
\* window after the reset.
statsOf(w, limit, windowMs, t) ==
    LET used == Max(0, Min(w.count, limit))
        remaining == Max(limit - used, 0)
        resetAt == w.startedAt + windowMs
        resetInMs == Max(resetAt - t, 0)
    IN  [limit |-> limit, used |-> used, remaining |-> remaining,
         resetAt |-> resetAt, resetInMs |-> resetInMs]

\* getHourlyStats(now): the window it leaves and the stats it returns.
getHourlyStats(w, t) ==
    LET w1 == resetHourlyWindowIfNeeded(w, t)
    IN  [window |-> w1,
         stats |-> statsOf(w1, SALES_DRIVE_HOURLY_LIMIT, SALES_DRIVE_HOURLY_WINDOW_MS, t)]

\* noteHourlyRequest that stops counting at the limit.
noteHourlyRequestSaturating(w, t) ==
    LET w1 == resetHourlyWindowIfNeeded(w, t)
    IN  getHourlyStats([w1 EXCEPT !.count = Min(@ + 1, SALES_DRIVE_HOURLY_LIMIT)], t)

\* noteHourlyRequest(), reading the clock as t.
noteHourlyRequest(w, t) ==
    LET w1 == resetHourlyWindowIfNeeded(w, t)
    IN  getHourlyStats([w1 EXCEPT !.count = @ + 1], t)

\* getDailyStats(now)
getDailyStats(w, t) ==
    LET w1 == resetDailyWindowIfNeeded(w, t)
    IN  [window |-> w1,
         stats |-> statsOf(w1, SALES_DRIVE_DAILY_LIMIT, SALES_DRIVE_DAILY_WINDOW_MS, t)]

\* noteDailyRequest(), reading the clock as t.
noteDailyRequest(w, t) ==
    LET w1 == resetDailyWindowIfNeeded(w, t)
    IN  getDailyStats([w1 EXCEPT !.count = @ + 1], t)

\* No stats object has been returned yet.
NoStats == [limit |-> 0, used |-> 0, remaining |-> 0, resetAt |-> 0, resetInMs |-> 0]

\* The value kept in hourlyStats / dailyStats for a call `op` at time t.
Returned(op, t, stats) ==
    [op |-> op, at |-> t, limit |-> stats.limit, used |-> stats.used,
     remaining |-> stats.remaining, resetAt |-> stats.resetAt,
     resetInMs |-> stats.resetInMs]

\* ------------------------------------------------------------ RateLimiter

\* The limiter object together with the clock, the dispatch history and
\* the quota windows the dispatched operation (executeRequest) writes.
Limiter ==
    [clock |-> now, queue |-> queue, requestTimestamps |-> requestTimestamps,
     timer |-> timer, isCoolingDown |-> isCoolingDown,
     cooldownTriggered |-> cooldownTriggered, lastDelayMs |-> lastDelayMs,
     taskState |-> taskState, started |-> started,
     settlement |-> settlement, onDelay |-> onDelay,
     salesDriveHourlyWindow |-> salesDriveHourlyWindow,
     salesDriveDailyWindow |-> salesDriveDailyWindow,
     hourlyStats |-> hourlyStats, dailyStats |-> dailyStats]

\* No estimateWait result is held: none was asked for since the limiter
\* last ran a handler or the clock last ticked.
NoEstimate ==
    [extra |-> 0, made |-> FALSE, waitMs |-> 0, baseWaitMs |-> 0,
     extraWaitBeforeMs |-> 0, extraWaitAfterMs |-> 0, queueAhead |-> 0,
     active |-> 0, remainingSlotsInWindow |-> 0, coolingDown |-> FALSE]

SetLimiter(r) ==
    /\ estimate' = NoEstimate
    /\ waiter' = waiter
    /\ keyed' = keyed
    /\ UNCHANGED msVars
    /\ salesDriveHourlyWindow' = r.salesDriveHourlyWindow
    /\ salesDriveDailyWindow' = r.salesDriveDailyWindow
    /\ hourlyStats' = r.hourlyStats
    /\ dailyStats' = r.dailyStats
    /\ now' = r.clock
    /\ queue' = r.queue
    /\ requestTimestamps' = r.requestTimestamps
    /\ timer' = r.timer
    /\ isCoolingDown' = r.isCoolingDown
    /\ cooldownTriggered' = r.cooldownTriggered
    /\ lastDelayMs' = r.lastDelayMs
    /\ taskState' = r.taskState
    /\ settlement' = r.settlement
    /\ onDelay' = r.onDelay
    /\ started' = r.started

\* _pruneOld(now): keep the timestamps younger than intervalMs.
PruneOld(ts, t) ==
    LET Young(x) == t - x < IntervalMs IN SelectSeq(ts, Young)

\* The capacity test of _flushQueue, with `>` for `>=`.
AtCapacityOffByOne(ts) == Len(ts) > MaxRequests

\* A capacity test that also holds tasks back while the hourly quota is
\* used up.
AtCapacityOrQuotaSpent(ts) ==
    \/ Len(ts) >= MaxRequests
    \/ Len(ts) > 0 /\ salesDriveHourlyWindow.count >= SALES_DRIVE_HOURLY_LIMIT

\* requestTimestamps.length >= maxRequests
AtCapacity(ts) == Len(ts) >= MaxRequests

\* Taking the newest entry (queue.pop()) instead of the oldest.
DequeueLast(q) == [task |-> q[Len(q)], rest |-> SubSeq(q, 1, Len(q) - 1)]

\* queue.shift()
Dequeue(q) == [task |-> Head(q), rest |-> Tail(q)]

\* The overflow test of schedule(), with `>` for `>=`.
QueueFullOffByOne(q) == Len(q) > QueueLimit

\* pendingRequests >= queueLimit
QueueFull(q) == Len(q) >= QueueLimit

\* executeRequest that leaves the counting to the code after axios.get.
executeRequestNoNote(st, th, td) == [st EXCEPT !.clock = td]

\* executeRequest up to its await of axios.get, run when the limiter
\* dispatches the operation: noteHourlyRequest() reads the clock as th,
\* noteDailyRequest() as td.
executeRequest(st, th, td) ==
    LET h == noteHourlyRequest(st.salesDriveHourlyWindow, th)
        d == noteDailyRequest(st.salesDriveDailyWindow, td)
    IN  [st EXCEPT !.clock = td,
                   !.salesDriveHourlyWindow = h.window,
                   !.hourlyStats = Returned("note", th, h.stats),
                   !.salesDriveDailyWindow = d.window,
                   !.dailyStats = Returned("note", td, d.stats)]

\* A test of the timer handle that never sees the pending timer.
TimerPendingNever(st) == FALSE

\* this.timer is set: `timer` lists the deadlines of the pending
\* setTimeout calls, the handle being the last of them.
TimerPending(st) == st.timer # <<>>

\* The onDelay call without its try/catch: an exception of the hook leaves
\* _flushQueue.
callOnDelayUncaught(st) ==
    IF st.onDelay.throws THEN [st EXCEPT !.onDelay.escaped = TRUE] ELSE st

\* try { this.onDelay(waitTime, this.queue.length) } catch (err) { warn }
callOnDelay(st) ==
    IF st.onDelay.throws THEN [st EXCEPT !.onDelay.caught = TRUE] ELSE st

\* _flushQueue(), started with clock read number i of the running handler.
RECURSIVE flushQueue(_, _, _, _)
flushQueue(st, t0, i, k) ==
    LET t1 == ReadClock(t0, i, k)
        pruned == PruneOld(st.requestTimestamps, t1)
        s1 == [st EXCEPT !.requestTimestamps = pruned, !.clock = t1]
    IN  IF Len(st.queue) = 0 THEN s1
        ELSE
        LET t2 == ReadClock(t0, i + 1, k)
            s2 == [s1 EXCEPT !.clock = t2]
        IN  IF AtCapacity(pruned)
            THEN LET timeSinceOldest == t2 - pruned[1]
                     waitTime == Max(IntervalMs - timeSinceOldest, 0)
                 IN  IF waitTime = 0
                     THEN flushQueue([s2 EXCEPT !.requestTimestamps = Tail(pruned)],
                                     t0, i + 2, k)
                     ELSE IF ~TimerPending(s2)
                     THEN LET h == callOnDelay(
                                       [s2 EXCEPT !.isCoolingDown = TRUE,
                                                  !.cooldownTriggered = TRUE,
                                                  !.lastDelayMs = waitTime])
                          IN  IF h.onDelay.escaped THEN h
                              ELSE [h EXCEPT !.timer = Append(@, t2 + waitTime)]
                     ELSE s2
            ELSE LET d == Dequeue(s2.queue)
                     th == ReadClock(t0, i + 2, k)
                     td == ReadClock(t0, i + 3, k)
                 IN  executeRequest(
                         [s2 EXCEPT !.queue = d.rest,
                                    !.requestTimestamps = Append(pruned, t2),
                                    !.started = Append(@, [task |-> d.task, at |-> t2]),
                                    !.taskState[d.task] = "running"],
                         th, td)

\* schedule(taskFn) that runs the dispatch loop before the overflow test.
scheduleFlushFirst(st, task, k) ==
    LET f == flushQueue(st, st.clock, 1, k)
    IN  IF QueueFull(st.queue)
        THEN [f EXCEPT !.taskState[task] = "overflow"]
        ELSE flushQueue([st EXCEPT !.queue = Append(@, task),
                                   !.taskState[task] = "queued"],
                        st.clock, 1, k)

\* schedule(taskFn)
schedule(st, task, k) ==
    IF QueueFull(st.queue)
    THEN [st EXCEPT !.taskState[task] = "overflow"]
    ELSE flushQueue([st EXCEPT !.queue = Append(@, task),
                               !.taskState[task] = "queued"],
                    st.clock, 1, k)

\* A client calls schedule() with a new operation.
Schedule ==
    /\ nextTask <= MaxTasks
    /\ \E k \in TickPoints(now) : SetLimiter(schedule(Limiter, nextTask, k))
    /\ nextTask' = nextTask + 1
    /\ UNCHANGED <<jcVars, rxVars>>

\* A dispatched operation settles; .finally re-runs the dispatch loop.
TaskSettles ==
    \E t \in Tasks, k \in TickPoints(now) :
        /\ taskState[t] = "running"
        /\ SetLimiter(flushQueue([Limiter EXCEPT !.taskState[t] = "settled"],
                                 now, 1, k))
        /\ UNCHANGED <<nextTask, jcVars, rxVars>>

\* What a dispatched operation may do: return a promise that resolves or
\* rejects, or throw synchronously.
TaskErrors == {"ECONNRESET", "TypeError"}

OpOutcomes ==
    {[kind |-> "resolves", error |-> "none"]}
    \cup {[kind |-> how, error |-> e] : how \in {"rejects", "throws"}, e \in TaskErrors}

\* A promise chain whose catch swallows the error.
promiseOfSwallows(op) == [state |-> "resolved", error |-> "none"]

\* Promise.resolve().then(() => taskFn()).then(resolve).catch(reject): the
\* promise schedule() returned, once the operation has done `op`.
promiseOf(op) ==
    IF op.kind = "resolves"
    THEN [state |-> "resolved", error |-> "none"]
    ELSE [state |-> "rejected", error |-> op.error]

\* A dispatched operation settles with outcome op: the promise of
\* schedule() settles, then .finally re-runs the dispatch loop.
TaskSettlesWith ==
    \E t \in Tasks, k \in TickPoints(now), op \in OpOutcomes :
        /\ taskState[t] = "running"
        /\ SetLimiter(flushQueue(
               [Limiter EXCEPT !.taskState[t] = "settled",
                               !.settlement = [task |-> t, op |-> op,
                                               promise |-> promiseOf(op)]],
               now, 1, k))
        /\ UNCHANGED <<nextTask, jcVars, rxVars>>

\* The onDelay hook starts to throw (the hook is the caller's function).
OnDelayBreaks ==
    /\ ~onDelay.throws
    /\ onDelay' = [onDelay EXCEPT !.throws = TRUE]
    /\ UNCHANGED <<now, queue, requestTimestamps, timer, isCoolingDown,
                   cooldownTriggered, lastDelayMs, taskState, started, nextTask,
                   settlement, jcVars, rxVars, qtVars, clVars>>

\* A timer callback that clears the timer and the cooldown flag but does
\* not re-run the dispatch loop.
TimerFiresNoFlush ==
    /\ timer # <<>>
    /\ now >= timer[1]
    /\ timer' = <<>>
    /\ isCoolingDown' = FALSE
    /\ UNCHANGED <<now, queue, requestTimestamps, cooldownTriggered, lastDelayMs,
                   taskState, started, nextTask, settlement, onDelay,
                   jcVars, rxVars, qtVars, clVars>>

\* The cooldown timer fires (never early, possibly late).
TimerFires ==
    /\ timer # <<>>
    /\ now >= timer[1]
    /\ \E k \in TickPoints(now) :
           SetLimiter(flushQueue([Limiter EXCEPT !.timer = <<>>,
                                                 !.isCoolingDown = FALSE],
                                 now, 1, k))
    /\ UNCHANGED <<nextTask, jcVars, rxVars>>

\* --------------------------------------------------------------- JobCache

NoTimer == [state |-> "none", at |-> 0]

\* A Job id not yet handed out by createReportJob.
NoJob ==
    [key |-> 0, status |-> "none", updatedAt |-> 0, cleanupTimer |-> NoTimer,
     promise |-> "none", error |-> FALSE]

\* shouldRefresh that also treats an old pending Job as stale.
ShouldRefreshPendingToo(job, t) ==
    LET age == t - job.updatedAt
    IN  \/ job.status \in {"ready", "pending"} /\ age > REPORT_JOB_TTL_MS
        \/ job.status = "error" /\ age > REPORT_JOB_ERROR_TTL_MS

\* shouldRefresh with `>=` for `>`.
ShouldRefreshAtTtl(job, t) ==
    LET age == t - job.updatedAt
    IN  \/ job.status = "ready" /\ age >= REPORT_JOB_TTL_MS
        \/ job.status = "error" /\ age >= REPORT_JOB_ERROR_TTL_MS

\* shouldRefresh without the clause for error Jobs.
ShouldRefreshReadyOnly(job, t) ==
    LET age == t - job.updatedAt
    IN  job.status = "ready" /\ age > REPORT_JOB_TTL_MS

\* shouldRefresh of getOrCreateReportJob
ShouldRefresh(job, t) ==
    LET age == t - job.updatedAt
    IN  \/ job.status = "ready" /\ age > REPORT_JOB_TTL_MS
        \/ job.status = "error" /\ age > REPORT_JOB_ERROR_TTL_MS

\* createReportJob(key, workFactory): the new Job object; workFactory(job)
\* is invoked once, synchronously, and its promise is awaited.
createReportJob(key, t) ==
    [key |-> key, status |-> "pending", updatedAt |-> t, cleanupTimer |-> NoTimer,
     promise |-> "pending", error |-> FALSE]

\* The cache state a call works on.
Cache ==
    [reportJobs |-> reportJobs, jobs |-> jobs, nextJob |-> nextJob,
     builderCalls |-> builderCalls, ret |-> ret]

SetCache(c) ==
    /\ reportJobs' = c.reportJobs
    /\ jobs' = c.jobs
    /\ nextJob' = c.nextJob
    /\ builderCalls' = c.builderCalls
    /\ ret' = c.ret

\* getOrCreateReportJob that re-arms a stale Job object instead of making
\* a new one.
getOrCreateReuseStale(c, key, t) ==
    LET j == c.reportJobs[key]
    IN  IF j # 0 /\ ShouldRefresh(c.jobs[j], t)
        THEN [c EXCEPT !.jobs[j] = createReportJob(key, t),
                       !.builderCalls[j] = @ + 1,
                       !.ret = [key |-> key, job |-> j, status |-> "pending"]]
        ELSE IF j = 0
        THEN [c EXCEPT !.jobs[c.nextJob] = createReportJob(key, t),
                       !.builderCalls[c.nextJob] = @ + 1,
                       !.reportJobs[key] = c.nextJob,
                       !.nextJob = @ + 1,
                       !.ret = [key |-> key, job |-> c.nextJob, status |-> "pending"]]
        ELSE [c EXCEPT !.ret = [key |-> key, job |-> j, status |-> c.jobs[j].status]]

\* getOrCreateReportJob that serves only ready Jobs from the cache.
getOrCreateReadyOnly(c, key, t) ==
    LET j == c.reportJobs[key]
        hit == j # 0 /\ c.jobs[j].status = "ready" /\ ~ShouldRefresh(c.jobs[j], t)
    IN  IF hit
        THEN [c EXCEPT !.ret = [key |-> key, job |-> j, status |-> c.jobs[j].status]]
        ELSE [c EXCEPT !.jobs[c.nextJob] = createReportJob(key, t),
                       !.builderCalls[c.nextJob] = @ + 1,
                       !.reportJobs[key] = c.nextJob,
                       !.nextJob = @ + 1,
                       !.ret = [key |-> key, job |-> c.nextJob, status |-> "pending"]]

\* getOrCreateReportJob that drops a stale entry without clearTimeout.
getOrCreateKeepsTimer(c, key, t) ==
    LET j == c.reportJobs[key]
        refresh == j # 0 /\ ShouldRefresh(c.jobs[j], t)
        c1 == IF refresh THEN [c EXCEPT !.reportJobs[key] = 0] ELSE c
    IN  IF c1.reportJobs[key] = 0
        THEN [c1 EXCEPT !.jobs[c.nextJob] = createReportJob(key, t),
                        !.builderCalls[c.nextJob] = @ + 1,
                        !.reportJobs[key] = c.nextJob,
                        !.nextJob = @ + 1,
                        !.ret = [key |-> key, job |-> c.nextJob, status |-> "pending"]]
        ELSE [c1 EXCEPT !.ret = [key |-> key, job |-> j, status |-> c.jobs[j].status]]

\* getOrCreateReportJob(key, workFactory)
getOrCreateReportJob(c, key, t) ==
    LET j == c.reportJobs[key]
        refresh == j # 0 /\ ShouldRefresh(c.jobs[j], t)
        \* clearTimeout(job.cleanupTimer); reportJobs.delete(key); job = null
        c1 == IF refresh
              THEN [c EXCEPT !.jobs[j].cleanupTimer =
                                 IF @.state = "armed"
                                 THEN [state |-> "cleared", at |-> 0] ELSE @,
                             !.reportJobs[key] = 0]
              ELSE c
    IN  IF c1.reportJobs[key] = 0
        THEN [c1 EXCEPT !.jobs[c.nextJob] = createReportJob(key, t),
                        !.builderCalls[c.nextJob] = @ + 1,
                        !.reportJobs[key] = c.nextJob,
                        !.nextJob = @ + 1,
                        !.ret = [key |-> key, job |-> c.nextJob, status |-> "pending"]]
        ELSE [c1 EXCEPT !.ret = [key |-> key, job |-> j, status |-> c.jobs[j].status]]

\* A continuation that lets the builder's exception reject job.promise.
settleJobRethrows(job, ok, t) ==
    [job EXCEPT !.status = IF ok THEN "ready" ELSE "error",
                !.error = ~ok,
                !.promise = IF ok THEN "resolved" ELSE "rejected",
                !.updatedAt = t,
                !.cleanupTimer =
                    [state |-> "armed",
                     at |-> t + (IF ok THEN REPORT_JOB_TTL_MS
                                       ELSE REPORT_JOB_ERROR_TTL_MS)]]

\* A continuation whose catch branch arms no cleanup timer.
settleJobNoErrorTimer(job, ok, t) ==
    [job EXCEPT !.status = IF ok THEN "ready" ELSE "error",
                !.error = ~ok,
                !.promise = "resolved",
                !.updatedAt = t,
                !.cleanupTimer =
                    IF ok THEN [state |-> "armed", at |-> t + REPORT_JOB_TTL_MS]
                    ELSE @]

\* The continuation of createReportJob's async block once workFactory's
\* promise has settled: status, error (whether a thrown value is kept),
\* progress push (updatedAt), cleanup timer; the block returns, so that
\* job.promise resolves.
settleJob(job, ok, t) ==
    [job EXCEPT !.status = IF ok THEN "ready" ELSE "error",
                !.error = ~ok,
                !.promise = "resolved",
                !.updatedAt = t,
                !.cleanupTimer =
                    [state |-> "armed",
                     at |-> t + (IF ok THEN REPORT_JOB_TTL_MS
                                       ELSE REPORT_JOB_ERROR_TTL_MS)]]

\* The keys requested so far are 1..UsedKeys: keys are interchangeable, so
\* a key not requested before is taken to be the next unused one.
UsedKeys == Cardinality({jobs[j].key : j \in JobIds} \ {0})

\* An HTTP handler calls getOrCreateReportJob(key, builder).
GetOrCreate ==
    \E key \in Keys :
        /\ key <= UsedKeys + 1
        /\ LET c == getOrCreateReportJob(Cache, key, now)
           IN  /\ c.nextJob <= MaxJobs + 1
               /\ SetCache(c)
        /\ nCalls' = 1 - nCalls
        /\ UNCHANGED <<now, rlVars, rxVars, qtVars, clVars>>

\* The builder of a pending Job resolves (ok) or throws; the continuation
\* pushes the progress with reportJobPushProgress, which reads the quota
\* stats.
BuilderSettles ==
    \E j \in JobIds, ok \in BOOLEAN :
        LET h == getHourlyStats(salesDriveHourlyWindow, now)
            d == getDailyStats(salesDriveDailyWindow, now)
        IN  /\ jobs[j].status = "pending"
            /\ jobs' = [jobs EXCEPT ![j] = settleJob(@, ok, now)]
            /\ salesDriveHourlyWindow' = h.window
            /\ hourlyStats' = Returned("get", now, h.stats)
            /\ salesDriveDailyWindow' = d.window
            /\ dailyStats' = Returned("get", now, d.stats)
            /\ UNCHANGED <<now, rlVars, rxVars, reportJobs, nextJob, builderCalls,
                           ret, nCalls, clVars>>

\* The builder of a pending Job reports progress: job.updateProgress(patch).
UpdateProgress ==
    \E j \in JobIds :
        /\ jobs[j].status = "pending"
        /\ jobs[j].updatedAt # now
        /\ jobs' = [jobs EXCEPT ![j].updatedAt = now]
        /\ UNCHANGED <<now, rlVars, rxVars, qtVars, reportJobs, nextJob, builderCalls, ret, nCalls, clVars>>

\* The callback of a Job's cleanup timer: the entry is deleted if it still
\* holds this Job.
cleanupCallback(rj, job, j) ==
    IF rj[job.key] = j THEN [rj EXCEPT ![job.key] = 0] ELSE rj

\* A cleanup timer fires (never early, possibly late).
CleanupTimerFires ==
    \E j \in JobIds :
        /\ jobs[j].cleanupTimer.state = "armed"
        /\ now >= jobs[j].cleanupTimer.at
        /\ reportJobs' = cleanupCallback(reportJobs, jobs[j], j)
        /\ jobs' = [jobs EXCEPT ![j].cleanupTimer = [state |-> "fired", at |-> 0]]
        /\ UNCHANGED <<now, rlVars, rxVars, qtVars, nextJob, builderCalls, ret, nCalls, clVars>>

\* ------------------------------------------------------- RetryingExecutor

\* What the catch block reads from an error: error.response.status (0: no
\* response), whether error.code is a string, and the parsed Retry-After
\* header (<<>>: null).
NoError == [status |-> 0, code |-> FALSE, retryAfterMs |-> <<>>, overflow |-> FALSE]

\* The error schedule() throws when the queue is full.
OverflowError == [NoError EXCEPT !.overflow = TRUE]

\* parseRetryAfter(header) of the responses the model lets fail: no header
\* (null), "0", or RetryAfterHint.
RetryAfterHints == {<<>>, <<0>>, <<RetryAfterHint>>}

\* The errors an attempt's HTTP request may fail with: no response, a
\* retryable status of either class (429, 5xx), or another status.
RequestErrors ==
    {[status |-> st, code |-> c, retryAfterMs |-> ra, overflow |-> FALSE] :
        st \in {0, 429, 503, 400, 404},
        c \in BOOLEAN,
        ra \in RetryAfterHints}

\* retryableStatus without the gateway errors.
retryableStatusNoGateway(status) == status \in {429, 500, 503}

retryableStatus(status) == status \in {429, 500, 502, 503, 504}

\* shouldRetry with `<=` for `<`.
shouldRetryOneMore(attempt, error) ==
    /\ attempt <= SALES_DRIVE_MAX_RETRY_ATTEMPTS
    /\ retryableStatus(error.status) \/ error.code \/ error.retryAfterMs # <<>>

\* shouldRetry that retries whatever the error is.
shouldRetryAnyError(attempt, error) == attempt < SALES_DRIVE_MAX_RETRY_ATTEMPTS

\* shouldRetry of the catch block
shouldRetry(attempt, error) ==
    /\ attempt < SALES_DRIVE_MAX_RETRY_ATTEMPTS
    /\ retryableStatus(error.status) \/ error.code \/ error.retryAfterMs # <<>>

\* boundedDelay that never looks at the Retry-After hint.
boundedDelayIgnoresHint(attempt, error) ==
    LET backoffMultiplier == 2 ^ (attempt - 1)
        baseDelay == SALES_DRIVE_RETRY_BASE_DELAY_MS * backoffMultiplier
    IN  Max(MinRetryDelayMs, Min(baseDelay, IntervalMs))

\* boundedDelay without the cap at the limiter interval.
boundedDelayNoCap(attempt, error) ==
    LET backoffMultiplier == 2 ^ (attempt - 1)
        baseDelay == SALES_DRIVE_RETRY_BASE_DELAY_MS * backoffMultiplier
        chosenDelay == IF error.retryAfterMs # <<>> THEN error.retryAfterMs[1]
                       ELSE baseDelay
    IN  Max(MinRetryDelayMs, chosenDelay)

\* boundedDelay of the catch block
boundedDelay(attempt, error) ==
    LET backoffMultiplier == 2 ^ (attempt - 1)
        baseDelay == SALES_DRIVE_RETRY_BASE_DELAY_MS * backoffMultiplier
        chosenDelay == IF error.retryAfterMs # <<>> THEN error.retryAfterMs[1]
                       ELSE baseDelay
    IN  Max(MinRetryDelayMs, Min(chosenDelay, IntervalMs))

\* The catch block of rateLimitedSalesDriveRequest: retry after a delay, or
\* throw the error.
catchBlock(attempt, error) ==
    IF shouldRetry(attempt, error)
    THEN [retry |-> TRUE, delay |-> boundedDelay(attempt, error), thrown |-> NoError]
    ELSE IF (retryableStatus(error.status) \/ error.retryAfterMs # <<>>)
            /\ attempt < SALES_DRIVE_MAX_RETRY_ATTEMPTS
    THEN [retry |-> TRUE,
          delay |-> IF error.retryAfterMs # <<>> THEN error.retryAfterMs[1]
                    ELSE IntervalMs,
          thrown |-> NoError]
    ELSE [retry |-> FALSE, delay |-> 0, thrown |-> error]

\* markSalesDriveRetry that keeps the delay marked last.
markSalesDriveRetryLast(state, delayMs) == [triggered |-> TRUE, maxDelayMs |-> delayMs]

\* markSalesDriveRetry(delayMs)
markSalesDriveRetry(state, delayMs) ==
    [triggered |-> TRUE,
     maxDelayMs |-> IF delayMs > state.maxDelayMs THEN delayMs ELSE state.maxDelayMs]

\* The retry flag after the catch block has handled `error` of `attempt`.
retryStateAfterError(state, attempt, error) ==
    LET h == catchBlock(attempt, error)
    IN  IF h.retry THEN markSalesDriveRetry(state, h.delay) ELSE state

\* consumeSalesDriveRetryFlag that leaves the flag set.
consumeSalesDriveRetryFlagKeeps(state) == [snapshot |-> state, state |-> state]

\* consumeSalesDriveRetryFlag(): the snapshot it returns and the state it
\* leaves.
consumeSalesDriveRetryFlag(state) ==
    [snapshot |-> state, state |-> [triggered |-> FALSE, maxDelayMs |-> 0]]

\* The call after the catch block has handled `error` of attempt c.attempt.
afterError(c, error, t) ==
    LET h == catchBlock(c.attempt, error)
    IN  IF h.retry
        THEN [c EXCEPT !.pc = "waiting", !.task = 0, !.failedAt = t,
                       !.wakeAt = t + h.delay]
        ELSE [c EXCEPT !.pc = "failed", !.task = 0, !.failedAt = t,
                       !.thrown = h.thrown]

\* rateLimitedSalesDriveRequest whose retries call executeRequest
\* themselves instead of handing it to the limiter.
SubmitAttemptRetriesDirect(attempt) ==
    /\ nextTask <= MaxTasks
    /\ \E k \in TickPoints(now) :
          LET pruned == [Limiter EXCEPT
                            !.requestTimestamps = PruneOld(@, ReadClock(now, 1, k))]
              r == IF attempt = 1
                   THEN schedule(pruned, nextTask, k)
                   ELSE executeRequest(
                            [pruned EXCEPT
                                !.started = Append(@, [task |-> nextTask, at |-> now]),
                                !.taskState[nextTask] = "running"],
                            now, now)
              c == [call EXCEPT !.attempt = attempt,
                                !.attempts = IF attempt = 1 THEN 1 ELSE @ + 1,
                                !.task = nextTask, !.pc = "scheduled"]
          IN  /\ SetLimiter(r)
              /\ IF r.taskState[nextTask] = "overflow"
                 THEN /\ call' = afterError(c, OverflowError, r.clock)
                      /\ lastError' = OverflowError
                      /\ salesDriveRetryState' =
                             retryStateAfterError(salesDriveRetryState, attempt,
                                                  OverflowError)
                 ELSE /\ call' = c
                      /\ UNCHANGED <<lastError, salesDriveRetryState>>
    /\ nextTask' = nextTask + 1
    /\ UNCHANGED <<retrySnapshot, jcVars>>

\* rateLimitedSalesDriveRequest(params, context, attempt) up to its await:
\* evaluateRateLimit() prunes the window, then the attempt is submitted;
\* an overflow error of schedule() is handled by the catch block at once.
SubmitAttempt(attempt) ==
    /\ nextTask <= MaxTasks
    /\ \E k \in TickPoints(now) :
          LET pruned == [Limiter EXCEPT
                            !.requestTimestamps = PruneOld(@, ReadClock(now, 1, k))]
              r == schedule(pruned, nextTask, k)
              c == [call EXCEPT !.attempt = attempt,
                                !.attempts = IF attempt = 1 THEN 1 ELSE @ + 1,
                                !.task = nextTask, !.pc = "scheduled"]
          IN  /\ SetLimiter(r)
              /\ IF r.taskState[nextTask] = "overflow"
                 THEN /\ call' = afterError(c, OverflowError, r.clock)
                      /\ lastError' = OverflowError
                      /\ salesDriveRetryState' =
                             retryStateAfterError(salesDriveRetryState, attempt,
                                                  OverflowError)
                 ELSE /\ call' = c
                      /\ UNCHANGED <<lastError, salesDriveRetryState>>
    /\ nextTask' = nextTask + 1
    /\ UNCHANGED <<retrySnapshot, jcVars>>

\* A caller starts a logical call (attempt defaults to 1): the first page,
\* or the next page after the previous call has resolved.
StartCall ==
    /\ call.pc \in {"idle", "done"}
    /\ SubmitAttempt(1)

\* The backoff wait is over: the function calls itself with attempt + 1.
BackoffElapses ==
    /\ call.pc = "waiting"
    /\ now >= call.wakeAt
    /\ SubmitAttempt(call.attempt + 1)

\* The HTTP request of the current attempt succeeds: executeRequest calls
\* evaluateRateLimit() and returns, the limiter re-runs its dispatch loop
\* and the logical call resolves.
AttemptSucceeds ==
    /\ call.pc = "scheduled"
    /\ taskState[call.task] = "running"
    /\ \E k \in TickPoints(now) :
          SetLimiter(flushQueue(
              [Limiter EXCEPT !.taskState[call.task] = "settled",
                              !.requestTimestamps = PruneOld(@, now)],
              now, 1, k))
    /\ call' = [call EXCEPT !.pc = "done", !.task = 0]
    /\ UNCHANGED <<nextTask, lastError, salesDriveRetryState, retrySnapshot, jcVars>>

\* The HTTP request of the current attempt fails with one of `errors`: the
\* limiter re-runs its dispatch loop and the catch block decides.
AttemptFailsWith(errors) ==
    /\ call.pc = "scheduled"
    /\ taskState[call.task] = "running"
    /\ \E error \in errors, k \in TickPoints(now) :
          LET r == flushQueue([Limiter EXCEPT !.taskState[call.task] = "settled"],
                              now, 1, k)
          IN  /\ SetLimiter(r)
              /\ call' = afterError(call, error, r.clock)
              /\ lastError' = error
              /\ salesDriveRetryState' =
                     retryStateAfterError(salesDriveRetryState, call.attempt, error)
    /\ UNCHANGED <<nextTask, retrySnapshot, jcVars>>

AttemptFails == AttemptFailsWith(RequestErrors)

\* The provider throttles the current attempt: 429, with or without a
\* Retry-After header.
Throttled == {e \in RequestErrors : e.status = 429 /\ ~e.code}

AttemptThrottled == AttemptFailsWith(Throttled)

\* The transient errors: a network error or a timeout of the 30 s request
\* (axios sets error.code, with no response), or a response with one of
\* the retryable statuses.
TransientErrors ==
    {[status |-> st, code |-> c, retryAfterMs |-> <<>>, overflow |-> FALSE] :
        st \in {0, 429, 500, 502, 503, 504}, c \in BOOLEAN}
    \ {NoError}

AttemptFailsTransiently == AttemptFailsWith(TransientErrors)

\* The wait(boundedDelay) of the catch block is over: BackoffElapses is
\* enabled.
BackoffDue == call.pc = "waiting" /\ now >= call.wakeAt

\* Math.ceil(a / b) for a >= 0, b > 0
CeilDiv(a, b) == (a + b - 1) \div b

\* The arguments estimateWait is called with.
Extras == (-1)..MaxExtra

\* estimateWait whose remaining slots are those the window has left after
\* the executions recorded in it and the tasks ahead.
remainingSlotsInWindowByActive(queueAhead, active) ==
    Max(Max(MaxRequests, 1) - active - queueAhead, 0)

\* remainingSlotsInWindow of estimateWait; `active` is not read.
remainingSlotsInWindow(queueAhead, active) ==
    LET maxRequests == Max(MaxRequests, 1)
        tasksAheadInWindow == queueAhead % maxRequests
        slotsUsedWithCurrent == tasksAheadInWindow + 1
    IN  Max(maxRequests - slotsUsedWithCurrent, 0)

\* extraWaitAfterMs that decreases as more extra requests are asked for.
extraWaitAfterMsDecreasing(extraRequests, slots) ==
    IF extraRequests > slots THEN 0 ELSE IntervalMs

\* extraWaitAfterMs of estimateWait
extraWaitAfterMs(extraRequests, slots) ==
    LET extraRequestsAfterCurrent == Max(extraRequests, 0)
        remainingExtraAfterCurrent == Max(extraRequestsAfterCurrent - slots, 0)
    IN  IF remainingExtraAfterCurrent > 0
        THEN CeilDiv(remainingExtraAfterCurrent, Max(MaxRequests, 1)) * IntervalMs
        ELSE 0

\* baseWaitMs that ignores the cooldown in progress.
baseWaitMsWindowOnly(st, pruned, t) ==
    IF Len(pruned) >= Max(MaxRequests, 1) /\ Len(pruned) > 0
    THEN Max(IntervalMs - (t - pruned[1]), 0)
    ELSE 0

\* baseWaitMs that is the cooldown delay whenever a delay was recorded.
baseWaitMsStaleDelay(st, pruned, t) ==
    Max(baseWaitMsWindowOnly(st, pruned, t), st.lastDelayMs)

\* baseWaitMs of estimateWait, from the pruned timestamps
baseWaitMs(st, pruned, t) ==
    LET fromWindow ==
            IF Len(pruned) >= Max(MaxRequests, 1) /\ Len(pruned) > 0
            THEN Max(IntervalMs - (t - pruned[1]), 0)
            ELSE 0
    IN  IF st.isCoolingDown /\ st.lastDelayMs > fromWindow
        THEN st.lastDelayMs
        ELSE fromWindow

\* The timestamps estimateWait leaves when it does not prune.
estimatePrunedNone(ts, t) == ts

\* The timestamps estimateWait leaves: this._pruneOld(now).
estimatePruned(ts, t) == PruneOld(ts, t)

\* estimateWait(extraRequests) with Date.now() = t: the limiter it leaves
\* and the object it returns.
estimateWait(st, extraRequests, t) ==
    LET maxRequests == Max(MaxRequests, 1)
        pruned == estimatePruned(st.requestTimestamps, t)
        queueAhead == Len(st.queue)
        active == Len(pruned)
        base == baseWaitMs(st, PruneOld(st.requestTimestamps, t), t)
        extraWaitBeforeMs == (queueAhead \div maxRequests) * IntervalMs
        slots == remainingSlotsInWindow(queueAhead, active)
        after == extraWaitAfterMs(extraRequests, slots)
    IN  [st |-> [st EXCEPT !.requestTimestamps = pruned],
         result |->
             [waitMs |-> Max(0, base + extraWaitBeforeMs + after),
              baseWaitMs |-> base,
              extraWaitBeforeMs |-> extraWaitBeforeMs,
              extraWaitAfterMs |-> after,
              queueAhead |-> queueAhead,
              active |-> active,
              extraRequests |-> Max(extraRequests, 0),
              remainingSlotsInWindow |-> slots,
              coolingDown |-> st.isCoolingDown]]

\* A caller (evaluateRateLimit) calls estimateWait(extra).
EstimateWait ==
    \E extra \in Extras :
        LET e == estimateWait(Limiter, extra, now)
        IN  /\ requestTimestamps' = e.st.requestTimestamps
            /\ estimate' =
                   [extra |-> extra, made |-> TRUE,
                    waitMs |-> e.result.waitMs,
                    baseWaitMs |-> e.result.baseWaitMs,
                    extraWaitBeforeMs |-> e.result.extraWaitBeforeMs,
                    extraWaitAfterMs |-> e.result.extraWaitAfterMs,
                    queueAhead |-> e.result.queueAhead,
                    active |-> e.result.active,
                    remainingSlotsInWindow |-> e.result.remainingSlotsInWindow,
                    coolingDown |-> e.result.coolingDown]
            /\ UNCHANGED <<now, queue, timer, isCoolingDown, cooldownTriggered,
                           lastDelayMs, taskState, started, nextTask,
                           settlement, onDelay,
                           jcVars, rxVars, qtVars, waiter, keyed, msVars>>

\* ------------------------------------------------------- buildReportJobKey
\* A string of digits is the sequence of its digits, so that strings
\* compare as JavaScript compares them, code unit by code unit.

\* Source ids as the controllers pass them: numbers, strings, null.
SourceIds ==
    { [kind |-> "number", n |-> 2,  s |-> <<>>],
      [kind |-> "number", n |-> 10, s |-> <<>>],
      [kind |-> "string", n |-> 0,  s |-> <<2>>],
      [kind |-> "null",   n |-> 0,  s |-> <<>>] }

SourceLists == UNION { [1..n -> SourceIds] : n \in 0..MaxSources }

\* Number.prototype.toString of a natural number.
RECURSIVE numberToString(_)
numberToString(n) ==
    IF n < 10 THEN <<n>> ELSE Append(numberToString(n \div 10), n % 10)

\* id != null ? id.toString() : ''
idToString(id) ==
    IF id.kind = "null" THEN <<>>
    ELSE IF id.kind = "string" THEN id.s
    ELSE numberToString(id.n)

\* The order of Array.prototype.sort() without a comparator: a < b.
RECURSIVE stringLess(_, _)
stringLess(a, b) ==
    IF a = <<>> THEN b # <<>>
    ELSE IF b = <<>> THEN FALSE
    ELSE IF Head(a) = Head(b) THEN stringLess(Tail(a), Tail(b))
    ELSE Head(a) < Head(b)

RECURSIVE insertSorted(_, _)
insertSorted(sorted, x) ==
    IF sorted = <<>> THEN <<x>>
    ELSE IF stringLess(x, Head(sorted)) THEN <<x>> \o sorted
    ELSE <<Head(sorted)>> \o insertSorted(Tail(sorted), x)

\* [...ids].sort()
RECURSIVE sortStrings(_)
sortStrings(list) ==
    IF list = <<>> THEN <<>>
    ELSE insertSorted(sortStrings(Tail(list)), Head(list))

\* [...selectedSourceIds].map(id => ...).sort()
normalizedSources(selectedSourceIds) ==
    sortStrings([i \in 1..Len(selectedSourceIds) |->
                    idToString(selectedSourceIds[i])])

\* A plain object is the sequence of its own <<name, value>> properties in
\* insertion order, names distinct and none an array index.  The filter
\* of a request has the order of the query string (sanitizeSalesDriveFilter
\* copies the entries in order).
FilterNames == {"statusId", "payment"}
FilterValues == {"1"}
PlanNames == {"sales", "profit"}
PlanValues == {"100"}

ObjectsOf(names, values) ==
    { <<>> }
    \cup { << <<k, v>> >> : k \in names, v \in values }
    \cup UNION { { << <<k1, v1>>, <<k2, v2>> >> :
                      k2 \in names \ {k1}, v1 \in values, v2 \in values }
                  : k1 \in names }

\* JSON.stringify of a plain object: "{", then every property in
\* insertion order as name, ":", value, then "}".
RECURSIVE stringifyProperties(_)
stringifyProperties(object) ==
    IF object = <<>> THEN <<>>
    ELSE <<Head(object)[1], ":", Head(object)[2]>>
         \o stringifyProperties(Tail(object))

stringifyObject(object) == <<"{">> \o stringifyProperties(object) \o <<"}">>

ReportTypes == {"summary", "monthly"}

JobParams ==
    [ selectedSourceIds : SourceLists,
      salesDriveFilter  : ObjectsOf(FilterNames, FilterValues),
      planOverrides     : ObjectsOf(PlanNames, PlanValues),
      reportType        : ReportTypes ]

\* buildReportJobKey: the JSON text, as the record of its serialised
\* fields in their fixed order (the dates and the limit, which the
\* function copies, are the same in every request here).
buildReportJobKey(params) ==
    [ sources    |-> normalizedSources(params.selectedSourceIds),
      filter     |-> stringifyObject(params.salesDriveFilter),
      plan       |-> stringifyObject(params.planOverrides),
      reportType |-> params.reportType ]

NoParams ==
    [ selectedSourceIds |-> <<>>, salesDriveFilter |-> <<>>,
      planOverrides |-> <<>>, reportType |-> "summary" ]

NoKeyed == [made |-> FALSE, params |-> NoParams, key |-> buildReportJobKey(NoParams)]

\* A controller builds the key of the first request for a report.
BuildReportJobKey ==
    /\ ~keyed.first.made
    /\ \E params \in JobParams :
           keyed' = [ first  |-> [made |-> TRUE, params |-> params,
                                  key |-> buildReportJobKey(params)],
                      second |-> NoKeyed ]
    /\ UNCHANGED <<now, rlVars, jcVars, rxVars, qtVars, estimate, waiter, msVars>>

\* b lists the elements of a, each as often, in any order.
Reordered(a, b) ==
    /\ Len(a) = Len(b)
    /\ \A i \in 1..Len(a) :
           Cardinality({j \in 1..Len(a) : a[j] = a[i]})
               = Cardinality({j \in 1..Len(b) : b[j] = a[i]})

\* Two requests that differ at most in the order of the source ids and of
\* the properties of the filter and plan objects.
DifferOnlyInOrder(p, q) ==
    /\ Reordered(p.selectedSourceIds, q.selectedSourceIds)
    /\ Reordered(p.salesDriveFilter, q.salesDriveFilter)
    /\ Reordered(p.planOverrides, q.planOverrides)
    /\ p.reportType = q.reportType

\* A controller builds the key of a later request for the same report.
BuildReportJobKeyAgain ==
    /\ keyed.first.made
    /\ \E params \in JobParams :
           /\ DifferOnlyInOrder(keyed.first.params, params)
           /\ keyed' = [keyed EXCEPT !.second =
                            [made |-> TRUE, params |-> params,
                             key |-> buildReportJobKey(params)]]
    /\ UNCHANGED <<now, rlVars, jcVars, rxVars, qtVars, estimate, waiter, msVars>>

\* The loop test of waitForAll: queue.length > 0 || _isCoolingDown
waitForAllBusy(st) == Len(st.queue) > 0 \/ st.isCoolingDown

\* waitForAll without its loop: the promise resolves at the first look.
waitForAllNoLoop(st, t) == [pc |-> "resolved", wakeAt |-> 0]

\* One pass of waitForAll's loop at time t: the promise resolves, or the
\* call sleeps for the cooldown delay or the poll delay.
waitForAll(st, t) ==
    IF waitForAllBusy(st)
    THEN LET waitTime == IF st.isCoolingDown THEN Max(st.lastDelayMs, 0)
                         ELSE WAIT_FOR_ALL_POLL_MS
         IN  [pc |-> "sleeping", wakeAt |-> t + waitTime]
    ELSE [pc |-> "resolved", wakeAt |-> 0]

\* A caller (waitForSalesDriveIdle) calls waitForAll().
WaitForAll ==
    /\ waiter.pc = "idle"
    /\ waiter' = waitForAll(Limiter, now)
    /\ UNCHANGED <<now, rlVars, jcVars, rxVars, qtVars, estimate, keyed, msVars>>

\* The delay() of waitForAll is due: WaitForAllWakes is enabled.
WakeDue == waiter.pc = "sleeping" /\ now >= waiter.wakeAt

\* The delay() waitForAll awaits is over (never early, possibly late).
WaitForAllWakes ==
    /\ WakeDue
    /\ waiter' = waitForAll(Limiter, now)
    /\ UNCHANGED <<now, rlVars, jcVars, rxVars, qtVars, estimate, keyed, msVars>>

\* consumeCooldownFlag(): the limiter fields it leaves.
consumeCooldownFlag(st) ==
    [st EXCEPT !.cooldownTriggered = FALSE,
               !.lastDelayMs = IF st.cooldownTriggered THEN 0 ELSE @]

\* buildReportData, once the sources are loaded, works out the cooldown it
\* reports: consumeSalesDriveRetryFlag(), consumeCooldownFlag(),
\* getHourlyStats() and getDailyStats().
BuildReportData ==
    LET r == consumeSalesDriveRetryFlag(salesDriveRetryState)
        l == consumeCooldownFlag(Limiter)
        h == getHourlyStats(salesDriveHourlyWindow, now)
        d == getDailyStats(salesDriveDailyWindow, now)
    IN  /\ retrySnapshot' = [taken |-> TRUE, triggered |-> r.snapshot.triggered,
                             maxDelayMs |-> r.snapshot.maxDelayMs]
        /\ salesDriveRetryState' = r.state
        /\ cooldownTriggered' = l.cooldownTriggered
        /\ lastDelayMs' = l.lastDelayMs
        /\ salesDriveHourlyWindow' = h.window
        /\ hourlyStats' = Returned("get", now, h.stats)
        /\ salesDriveDailyWindow' = d.window
        /\ dailyStats' = Returned("get", now, d.stats)
        /\ estimate' = NoEstimate
        /\ UNCHANGED <<now, queue, requestTimestamps, timer, isCoolingDown,
                       taskState, started, nextTask, settlement, onDelay,
                       jcVars, call, lastError, waiter, keyed, msVars>>

\* A reader (reportJobPushProgress, a report handler) calls getHourlyStats()
\* and getDailyStats().
GetStats ==
    LET h == getHourlyStats(salesDriveHourlyWindow, now)
        d == getDailyStats(salesDriveDailyWindow, now)
    IN  /\ salesDriveHourlyWindow' = h.window
        /\ hourlyStats' = Returned("get", now, h.stats)
        /\ salesDriveDailyWindow' = d.window
        /\ dailyStats' = Returned("get", now, d.stats)
        /\ UNCHANGED <<now, rlVars, jcVars, rxVars, clVars>>

\* ---------------------------------------------------------------------
\* monthlyScheduleService.js: the monthly scheduler.  Its functions are
\* async; a call runs from one await to the next in one step, and the
\* file operations it awaits succeed or fail.
\* ---------------------------------------------------------------------

\* The part of monthly-schedule.json the scheduler reads and writes.
DEFAULT_SCHEDULE_CONFIG == [enabled |-> TRUE, lastRunStatus |-> "null"]

RunIds == 1..Len(runs)

\* A call that has just begun.
NewRun(kind, pc) ==
    [kind |-> kind, pc |-> pc, config |-> DEFAULT_SCHEDULE_CONFIG,
     enabled |-> FALSE, status |-> "none", threw |-> FALSE]

\* scheduleNextRun up to its await: the timer schedulerState points at is
\* cleared.
clearScheduled(st, ev) ==
    IF st.timer # 0
    THEN [state |-> [st EXCEPT !.timer = 0],
          loop |-> [ev EXCEPT !.timers = @ \ {st.timer}]]
    ELSE [state |-> st, loop |-> ev]

\* scheduleNextRun after its await, with the config it loaded: a timer is
\* armed for the next run unless the schedule is disabled.
armScheduled(st, ev, config) ==
    IF ~config.enabled
    THEN [state |-> [st EXCEPT !.nextRunAt = "null"], loop |-> ev]
    ELSE [state |-> [st EXCEPT !.nextRunAt = "date", !.timer = ev.nextHandle],
          loop |-> [timers |-> ev.timers \cup {ev.nextHandle},
                    nextHandle |-> ev.nextHandle + 1]]

\* The caller of runMonthlyScheduleJobInternal (runMonthlyScheduleNow, the
\* timer callback) goes on to scheduleNextRun once the job has returned.
thenScheduleNextRun(run, st, ev) ==
    LET c == clearScheduled(st, ev)
    IN  [state |-> c.state, loop |-> c.loop, run |-> [run EXCEPT !.pc = "schedLoad"]]

\* runMonthlyScheduleJobInternal up to its first await: busy while a run
\* is in progress, else the run is marked in progress and the config is
\* being loaded.
enterJob(kind, st, ev) ==
    IF st.isRunning
    THEN thenScheduleNextRun([NewRun(kind, "schedLoad") EXCEPT !.status = "busy"], st, ev)
    ELSE [state |-> [st EXCEPT !.isRunning = TRUE], loop |-> ev,
          run |-> NewRun(kind, "jobLoad")]

SetScheduler(r, new) ==
    /\ schedulerState' = new.state
    /\ eventLoop' = new.loop
    /\ runs' = IF r > Len(runs) THEN Append(runs, new.run)
               ELSE [runs EXCEPT ![r] = new.run]

Threw(r) ==
    runs' = [runs EXCEPT ![r] = [@ EXCEPT !.pc = "done", !.threw = TRUE]]

OtherUnchanged ==
    UNCHANGED <<now, rlVars, jcVars, rxVars, qtVars, estimate, waiter, keyed>>

\* The server starts the scheduler.
InitializeMonthlyScheduler ==
    /\ Len(runs) < MaxRuns
    /\ \A r \in RunIds : runs[r].kind # "init"
    /\ runs' = Append(runs, NewRun("init", "initEnsure"))
    /\ UNCHANGED <<schedulerState, eventLoop, scheduleConfig>>
    /\ OtherUnchanged

\* ensureScheduleConfigFile of initializeMonthlyScheduler is over.
EnsureEnds ==
    /\ \E r \in RunIds, ok \in BOOLEAN :
           /\ runs[r].pc = "initEnsure"
           /\ IF ok
              THEN SetScheduler(r, thenScheduleNextRun(runs[r], schedulerState, eventLoop))
              ELSE Threw(r) /\ UNCHANGED <<schedulerState, eventLoop>>
    /\ UNCHANGED scheduleConfig
    /\ OtherUnchanged

\* A user starts a run by hand.
RunMonthlyScheduleNow ==
    /\ Len(runs) < MaxRuns
    /\ SetScheduler(Len(runs) + 1, enterJob("manual", schedulerState, eventLoop))
    /\ UNCHANGED scheduleConfig
    /\ OtherUnchanged

\* A timer armed by scheduleNextRun fires: its callback forgets the timer
\* schedulerState points at and starts an automatic run.
ScheduleTimerFires ==
    /\ Len(runs) < MaxRuns
    /\ \E h \in eventLoop.timers :
           SetScheduler(Len(runs) + 1,
                        enterJob("auto", [schedulerState EXCEPT !.timer = 0],
                                 [eventLoop EXCEPT !.timers = @ \ {h}]))
    /\ UNCHANGED scheduleConfig
    /\ OtherUnchanged

\* loadMonthlyScheduleConfig at the head of the job is over: the job goes
\* on with the config, or the rejection leaves the job and its caller.
JobConfigLoaded ==
    /\ \E r \in RunIds, ok \in BOOLEAN :
           /\ runs[r].pc = "jobLoad"
           /\ IF ok
              THEN runs' = [runs EXCEPT ![r] = [@ EXCEPT !.pc = "jobBody",
                                                         !.config = scheduleConfig]]
              ELSE Threw(r)
    /\ UNCHANGED <<schedulerState, eventLoop, scheduleConfig>>
    /\ OtherUnchanged

\* The try block of the job is over: the months were rebuilt (some perhaps
\* not) and the config saved, or something in it threw.
JobBodyEnds ==
    /\ \E r \in RunIds, outcome \in {"success", "partial", "thrown"} :
           /\ runs[r].pc = "jobBody"
           /\ IF outcome = "thrown"
              THEN /\ runs' = [runs EXCEPT ![r] = [@ EXCEPT !.pc = "jobCatch"]]
                   /\ UNCHANGED <<schedulerState, eventLoop, scheduleConfig>>
              ELSE /\ scheduleConfig' = [runs[r].config EXCEPT !.lastRunStatus = outcome]
                   /\ SetScheduler(r, thenScheduleNextRun(
                          [runs[r] EXCEPT !.status = outcome],
                          [schedulerState EXCEPT !.isRunning = FALSE], eventLoop))
    /\ OtherUnchanged

\* The catch block of the job is over: the failure was written to the
\* config, or loading or saving it threw; the finally block has run.
JobCatchEnds ==
    /\ \E r \in RunIds, ok \in BOOLEAN :
           /\ runs[r].pc = "jobCatch"
           /\ IF ok
              THEN /\ scheduleConfig' = [scheduleConfig EXCEPT !.lastRunStatus = "error"]
                   /\ SetScheduler(r, thenScheduleNextRun(
                          [runs[r] EXCEPT !.status = "error"],
                          [schedulerState EXCEPT !.isRunning = FALSE], eventLoop))
              ELSE /\ Threw(r)
                   /\ schedulerState' = [schedulerState EXCEPT !.isRunning = FALSE]
                   /\ UNCHANGED <<eventLoop, scheduleConfig>>
    /\ OtherUnchanged

\* loadMonthlyScheduleConfig of scheduleNextRun is over.
ScheduleConfigLoaded ==
    /\ eventLoop.nextHandle <= MaxTimers
    /\ \E r \in RunIds, ok \in BOOLEAN :
           /\ runs[r].pc = "schedLoad"
           /\ IF ok
              THEN LET a == armScheduled(schedulerState, eventLoop, scheduleConfig)
                   IN  SetScheduler(r, [state |-> a.state, loop |-> a.loop,
                                        run |-> [runs[r] EXCEPT !.pc = "done"]])
              ELSE Threw(r) /\ UNCHANGED <<schedulerState, eventLoop>>
    /\ UNCHANGED scheduleConfig
    /\ OtherUnchanged

\* A user saves the schedule settings.
UpdateMonthlyScheduleConfig ==
    /\ Len(runs) < MaxRuns
    /\ \E enabled \in BOOLEAN :
           runs' = Append(runs, [NewRun("update", "updLoad") EXCEPT !.enabled = enabled])
    /\ UNCHANGED <<schedulerState, eventLoop, scheduleConfig>>
    /\ OtherUnchanged

\* loadMonthlyScheduleConfig of updateMonthlyScheduleConfig is over.
UpdateConfigLoaded ==
    /\ \E r \in RunIds, ok \in BOOLEAN :
           /\ runs[r].pc = "updLoad"
           /\ IF ok
              THEN runs' = [runs EXCEPT ![r] = [@ EXCEPT !.pc = "updSave",
                                                         !.config = scheduleConfig]]
              ELSE Threw(r)
    /\ UNCHANGED <<schedulerState, eventLoop, scheduleConfig>>
    /\ OtherUnchanged

\* saveMonthlyScheduleConfig of updateMonthlyScheduleConfig is over.
UpdateConfigSaved ==
    /\ \E r \in RunIds, ok \in BOOLEAN :
           /\ runs[r].pc = "updSave"
           /\ IF ok
              THEN /\ scheduleConfig' = [runs[r].config EXCEPT !.enabled = runs[r].enabled]
                   /\ SetScheduler(r, thenScheduleNextRun(runs[r], schedulerState, eventLoop))
              ELSE /\ Threw(r)
                   /\ UNCHANGED <<schedulerState, eventLoop, scheduleConfig>>
    /\ OtherUnchanged

\* Time passes between two handlers.
Tick ==
    /\ now < MaxTime
    /\ now' = now + 1
    /\ estimate' = NoEstimate
    /\ UNCHANGED <<rlVars, jcVars, rxVars, qtVars, waiter, keyed, msVars>>

\* A time x of the limiter or the quota tracker when the origin of time is
\* moved forward by `shift`; times at or before `low` are not told apart.
Rebased(x, shift, low) == Max(x - shift, low)

\* Time passes between two handlers, without end: when the clock stands at
\* MaxTime, all times are from then on measured from an origin one day
\* later.  The limiter reads only differences of times and prunes what is
\* intervalMs old; the quota tracker compares window starts, which a shift
\* by whole days keeps aligned, and resets a window of any earlier hour or
\* day alike.  The history variables keep the order of the dispatches, not
\* their times, and not the stats objects returned earlier.  The job cache
\* compares the age of a Job with its TTL: ages beyond every TTL are not
\* told apart.
TimePasses ==
    LET shift == IF now < MaxTime THEN 0 ELSE SALES_DRIVE_DAILY_WINDOW_MS
        t == now + 1 - shift
        old == t - IntervalMs
        lastHour == alignToHour(t) - SALES_DRIVE_HOURLY_WINDOW_MS
        lastDay == alignToDay(t) - SALES_DRIVE_DAILY_WINDOW_MS
        longAgo == t - Max(REPORT_JOB_TTL_MS, REPORT_JOB_ERROR_TTL_MS) - 1
    IN  /\ now' = t
        /\ requestTimestamps' =
               [i \in 1..Len(requestTimestamps) |->
                   Rebased(requestTimestamps[i], shift, old)]
        /\ timer' = IF timer = <<>> THEN <<>> ELSE <<Rebased(timer[1], shift, old)>>
        /\ started' = [i \in 1..Len(started) |->
                          [started[i] EXCEPT !.at = Rebased(@, shift, t)]]
        /\ salesDriveHourlyWindow' =
               [salesDriveHourlyWindow EXCEPT !.startedAt = Rebased(@, shift, lastHour)]
        /\ salesDriveDailyWindow' =
               [salesDriveDailyWindow EXCEPT !.startedAt = Rebased(@, shift, lastDay)]
        /\ hourlyStats' = Returned("none", 0, NoStats)
        /\ dailyStats' = Returned("none", 0, NoStats)
        /\ estimate' = NoEstimate
        /\ waiter' = IF waiter.pc = "sleeping"
                     THEN [waiter EXCEPT !.wakeAt = Rebased(@, shift, old)]
                     ELSE waiter
        /\ keyed' = keyed
        /\ UNCHANGED msVars
        /\ call' = IF call.pc = "waiting"
                   THEN [call EXCEPT !.failedAt = Rebased(@, shift, old),
                                     !.wakeAt = Rebased(@, shift, old)]
                   ELSE call
        /\ jobs' = [j \in JobIds |->
                      IF jobs[j].status = "none" THEN jobs[j]
                      ELSE [jobs[j] EXCEPT
                               !.updatedAt = Rebased(@, shift, longAgo),
                               !.cleanupTimer =
                                   IF @.state = "armed"
                                   THEN [@ EXCEPT !.at = Rebased(@, shift, longAgo)]
                                   ELSE @]]
        /\ UNCHANGED <<queue, isCoolingDown, cooldownTriggered, lastDelayMs,
                       taskState, nextTask, settlement, onDelay, reportJobs,
                       nextJob, builderCalls, ret, nCalls,
                       lastError, salesDriveRetryState, retrySnapshot>>

Init ==
    /\ now = 0
    /\ queue = <<>>
    /\ requestTimestamps = <<>>
    /\ timer = <<>>
    /\ isCoolingDown = FALSE
    /\ cooldownTriggered = FALSE
    /\ lastDelayMs = 0
    /\ taskState = [t \in Tasks |-> "new"]
    /\ settlement = [task |-> 0, op |-> [kind |-> "none", error |-> "none"],
                     promise |-> [state |-> "pending", error |-> "none"]]
    /\ onDelay = [throws |-> FALSE, caught |-> FALSE, escaped |-> FALSE]
    /\ started = <<>>
    /\ nextTask = 1
    /\ reportJobs = [k \in Keys |-> 0]
    /\ jobs = [j \in JobIds |-> NoJob]
    /\ nextJob = 1
    /\ builderCalls = [j \in JobIds |-> 0]
    /\ ret = [key |-> 0, job |-> 0, status |-> "none"]
    /\ nCalls = 0
    /\ call = [pc |-> "idle", attempt |-> 0, task |-> 0, failedAt |-> 0,
               wakeAt |-> 0, attempts |-> 0, thrown |-> NoError]
    /\ lastError = NoError
    /\ salesDriveRetryState = [triggered |-> FALSE, maxDelayMs |-> 0]
    /\ retrySnapshot = [taken |-> FALSE, triggered |-> FALSE, maxDelayMs |-> 0]
    /\ salesDriveHourlyWindow = [startedAt |-> alignToHour(0), count |-> 0]
    /\ salesDriveDailyWindow = [startedAt |-> alignToDay(0), count |-> 0]
    /\ hourlyStats = Returned("none", 0, NoStats)
    /\ dailyStats = Returned("none", 0, NoStats)
    /\ estimate = NoEstimate
    /\ waiter = [pc |-> "idle", wakeAt |-> 0]
    /\ keyed = [first |-> NoKeyed, second |-> NoKeyed]
    /\ schedulerState = [timer |-> 0, nextRunAt |-> "null", isRunning |-> FALSE]
    /\ eventLoop = [timers |-> {}, nextHandle |-> 1]
    /\ scheduleConfig = DEFAULT_SCHEDULE_CONFIG
    /\ runs = <<>>

NextMonthly ==
    \/ InitializeMonthlyScheduler \/ EnsureEnds
    \/ RunMonthlyScheduleNow \/ ScheduleTimerFires
    \/ JobConfigLoaded \/ JobBodyEnds \/ JobCatchEnds
    \/ ScheduleConfigLoaded
    \/ UpdateMonthlyScheduleConfig \/ UpdateConfigLoaded \/ UpdateConfigSaved

SpecMonthly == Init /\ [][NextMonthly]_vars

NextLimiter == Schedule \/ TaskSettles \/ TimerFires \/ Tick

SpecLimiter == Init /\ [][NextLimiter]_vars

\* Clients call schedule() with as many operations as the limiter can hold
\* at once: a full window and a full queue.
ScheduleWithinCapacity ==
    /\ nextTask <= MaxRequests + QueueLimit
    /\ Schedule

\* The cooldown timer is armed and due: TimerFires is enabled.
TimerDue == timer # <<>> /\ now >= timer[1]

\* The limiter for ever: time passes, a timer that is due fires, every
\* dispatched operation settles.  Weak fairness of the last two is written
\* out, WF_v(A) being []<>~ENABLED <<A>>_v \/ []<><<A>>_v, with the enabling
\* condition as a state predicate.
NextLimiterFair == ScheduleWithinCapacity \/ TaskSettles \/ TimerFires \/ TimePasses

SpecLimiterFair ==
    /\ Init
    /\ [][NextLimiterFair]_vars
    /\ WF_vars(TimePasses)
    /\ []<>(~TimerDue) \/ []<><<TimerFires>>_vars
    /\ \A t \in Tasks :
           \/ []<>(taskState[t] # "running")
           \/ []<><<TaskSettles /\ taskState[t] = "running"
                                /\ taskState'[t] = "settled">>_vars

\* The keys of the requests for one report.
NextJobKey == BuildReportJobKey \/ BuildReportJobKeyAgain

SpecJobKey == Init /\ [][NextJobKey]_vars

\* waitForAll() beside a limiter in which one task more than a window
\* holds is scheduled, for ever: time passes, a due timer fires, every
\* dispatched operation settles, a due delay() ends.
ScheduleOneOverWindow ==
    /\ nextTask <= MaxRequests + 1
    /\ Schedule

NextWaitForAll ==
    \/ ScheduleOneOverWindow \/ TaskSettles \/ TimerFires
    \/ WaitForAll \/ WaitForAllWakes \/ TimePasses

SpecWaitForAll ==
    /\ Init
    /\ [][NextWaitForAll]_vars
    /\ WF_vars(TimePasses)
    /\ []<>(~TimerDue) \/ []<><<TimerFires>>_vars
    /\ []<>(~WakeDue) \/ []<><<WaitForAllWakes>>_vars
    /\ \A t \in Tasks :
           \/ []<>(taskState[t] # "running")
           \/ []<><<TaskSettles /\ taskState[t] = "running"
                                /\ taskState'[t] = "settled">>_vars

NextRetry ==
    \/ StartCall \/ BackoffElapses \/ AttemptSucceeds \/ AttemptFails
    \/ TimerFires \/ Tick

SpecRetry == Init /\ [][NextRetry]_vars

\* One logical call whose attempts fail with transient errors, for ever:
\* time passes and a backoff wait that is over ends.
StartFirstCall == nextTask = 1 /\ StartCall

NextRetryFair ==
    \/ StartFirstCall \/ BackoffElapses \/ AttemptSucceeds
    \/ AttemptFailsTransiently \/ TimePasses

SpecRetryFair ==
    /\ Init
    /\ [][NextRetryFair]_vars
    /\ WF_vars(TimePasses)
    /\ []<>(~BackoffDue) \/ []<><<BackoffElapses>>_vars

\* The limiter with one operation more than a window holds; the operations
\* resolve, reject or throw.
NextSettle == ScheduleOneOverWindow \/ TaskSettlesWith \/ TimerFires \/ Tick

SpecSettle == Init /\ [][NextSettle]_vars

\* The limiter with an onDelay hook that may start to throw.
NextOnDelay == Schedule \/ TaskSettles \/ TimerFires \/ OnDelayBreaks \/ Tick

SpecOnDelay == Init /\ [][NextOnDelay]_vars

\* The logical call among the attempts other calls submit (Schedule); the
\* requests of the other calls are slow and still in flight at MaxTime.
NextRetryBusy ==
    \/ StartCall \/ BackoffElapses \/ AttemptSucceeds \/ AttemptThrottled
    \/ Schedule \/ TimerFires \/ Tick

SpecRetryBusy == Init /\ [][NextRetryBusy]_vars

\* The logical call with throttled attempts, and a report builder that
\* reads the retry flag.
NextRetryFlag ==
    \/ StartCall \/ BackoffElapses \/ AttemptSucceeds \/ AttemptThrottled
    \/ BuildReportData \/ TimerFires \/ Tick

SpecRetryFlag == Init /\ [][NextRetryFlag]_vars

\* The limiter with callers that ask for estimates.
NextEstimate ==
    \/ ScheduleWithinCapacity \/ TaskSettles \/ TimerFires
    \/ EstimateWait \/ Tick

SpecEstimate == Init /\ [][NextEstimate]_vars

\* The limiter dispatching executeRequest operations, and readers of the
\* quota stats.
NextQuota ==
    \/ Schedule \/ TaskSettles \/ TimerFires
    \/ GetStats \/ Tick

SpecQuota == Init /\ [][NextQuota]_vars

\* Handlers ask for at most MaxBuilds reports while the limiter runs one
\* request of an earlier build.
GetOrCreateFew ==
    /\ nextJob <= MaxBuilds
    /\ GetOrCreate

ScheduleFirst ==
    /\ nextTask = 1
    /\ Schedule

NextJobFailure == GetOrCreateFew \/ BuilderSettles \/ ScheduleFirst \/ Tick

SpecJobFailure == Init /\ [][NextJobFailure]_vars

\* The cleanup timer of Job j is due: CleanupTimerFires is enabled for j.
CleanupDue(j) ==
    jobs[j].cleanupTimer.state = "armed" /\ now >= jobs[j].cleanupTimer.at

\* The job cache with a few builds, for ever: time passes and a cleanup
\* timer that is due fires.
NextJobsFair == GetOrCreateFew \/ BuilderSettles \/ CleanupTimerFires \/ TimePasses

SpecJobsFair ==
    /\ Init
    /\ [][NextJobsFair]_vars
    /\ WF_vars(TimePasses)
    /\ \/ []<>(\A j \in JobIds : ~CleanupDue(j))
       \/ []<><<CleanupTimerFires>>_vars

NextJobs == GetOrCreate \/ BuilderSettles \/ UpdateProgress \/ CleanupTimerFires \/ Tick

SpecJobs == Init /\ [][NextJobs]_vars

\* ----------------------------------------------------- claims: RateLimiter

\* The number of recorded starts in the window (t - IntervalMs, t].
StartsInWindow(t) ==
    Cardinality({j \in 1..Len(started) :
                    t - IntervalMs < started[j].at /\ started[j].at <= t})

\* C1: judged by the recorded start timestamps, no more than MaxRequests
\* executions begin within any window of length IntervalMs (a window that
\* ends at t covers the starts later than t - IntervalMs, up to t).
C1_WindowCeiling ==
    \A i \in 1..Len(started) : StartsInWindow(started[i].at) <= MaxRequests

\* More tasks than one window admits have started, the later ones after a
\* cooldown, and some window is full.
C1_Witness ==
    /\ Len(started) > MaxRequests
    /\ \E i \in 1..Len(started) : StartsInWindow(started[i].at) = MaxRequests
    /\ started[MaxRequests + 1].at >= started[1].at + IntervalMs

\* C4: dispatch is FIFO.  Task ids are given in the order of the schedule()
\* calls, so: the dispatched tasks appear in increasing id order with
\* non-decreasing start timestamps, and no task still queued was enqueued
\* before a task already dispatched.
C4_FifoDispatch ==
    /\ \A i, j \in 1..Len(started) :
           i < j => /\ started[i].task < started[j].task
                    /\ started[i].at <= started[j].at
    /\ \A t \in Tasks :
           taskState[t] = "queued" =>
               \A i \in 1..Len(started) : started[i].task < t

\* Tasks beyond the first window have been dispatched from the queue while
\* a later task still waits behind them.
C4_Witness ==
    /\ Len(started) > MaxRequests
    /\ Len(queue) >= 1
    /\ started[Len(started)].at > started[1].at

\* C5: the number of queued tasks never exceeds queueLimit.
C5_QueueBounded == Len(queue) <= QueueLimit

\* The queue is full.
C5_Witness == Len(queue) = QueueLimit

\* C6: schedule() called with a full queue rejects at once with the overflow
\* error and changes neither the queue, the recorded timestamps, the timer
\* nor the dispatch history; the rejected operation is never enqueued and
\* never run.
C6_OverflowRejects ==
    /\ [][(nextTask' = nextTask + 1 /\ Len(queue) >= QueueLimit)
            => /\ taskState'[nextTask] = "overflow"
               /\ queue' = queue
               /\ requestTimestamps' = requestTimestamps
               /\ timer' = timer
               /\ isCoolingDown' = isCoolingDown
               /\ started' = started]_vars
    /\ [](\A t \in Tasks :
             taskState[t] = "overflow" =>
                 /\ \A i \in 1..Len(queue) : queue[i] # t
                 /\ \A i \in 1..Len(started) : started[i].task # t)
    /\ [][\A t \in Tasks :
             taskState[t] = "overflow" => taskState'[t] = "overflow"]_vars

\* A schedule() call has been rejected for overflow, and time has passed
\* and tasks have been dispatched since.
C6_Witness ==
    \E t \in Tasks :
        /\ taskState[t] = "overflow"
        /\ Len(started) > MaxRequests

\* C15: with timers that fire and dispatched operations that settle, every
\* task accepted into the queue is eventually dispatched: a queued task
\* stays in the queue until it is dispatched, and time and again the queue
\* is empty.
C15_AcceptedEventuallyDispatched ==
    /\ []<>(queue = <<>>)
    /\ [][\A t \in Tasks :
             taskState[t] = "queued"
             => /\ taskState'[t] \in {"queued", "running"}
                /\ \E i \in 1..Len(queue) : queue[i] = t]_vars

\* A full window and a full queue of tasks have all been dispatched, the
\* queued ones after a cooldown.
C15_Witness ==
    /\ Len(started) = MaxRequests + QueueLimit
    /\ cooldownTriggered
    /\ queue = <<>>
    /\ \A i \in 1..Len(started) : taskState[started[i].task] = "settled"

\* The step is an estimateWait call; estimate' is what it returns.
EstimateMade == estimate'.made /\ estimate' # estimate

\* The wait the current window imposes at the time of the call: what is
\* left of intervalMs since the oldest execution in it, if it is full.
WindowWaitMs ==
    LET inWindow == PruneOld(requestTimestamps, now)
    IN  IF Len(inWindow) >= MaxRequests
        THEN Max(IntervalMs - (now - inWindow[1]), 0)
        ELSE 0

\* C22, as stated: an estimateWait call leaves the queue, the recorded
\* execution timestamps, the timer, the cooldown flags and lastDelayMs as
\* they were.
C22_EstimateWaitPure ==
    [][EstimateMade
       => UNCHANGED <<queue, requestTimestamps, timer, isCoolingDown,
                      cooldownTriggered, lastDelayMs>>]_vars

\* C22, amended: an estimateWait call leaves the queue, the timer, the
\* cooldown flags and lastDelayMs as they were; of the recorded execution
\* timestamps it removes those that are intervalMs old or older and keeps
\* the others, in their order.
C22_EstimateWaitOnlyPrunes ==
    [][EstimateMade
       => /\ UNCHANGED <<queue, timer, isCoolingDown, cooldownTriggered,
                         lastDelayMs, taskState, started, nextTask, now>>
          /\ requestTimestamps' = PruneOld(requestTimestamps, now)]_vars

\* A full window of executions was recorded and is intervalMs old; no
\* task has settled and no timer was armed, and an estimateWait call has
\* left no timestamp.
C22_Witness ==
    /\ estimate.made
    /\ Len(started) = MaxRequests
    /\ nextTask = MaxRequests + 1
    /\ \A i \in 1..Len(started) : taskState[started[i].task] = "running"
    /\ ~cooldownTriggered
    /\ requestTimestamps = <<>>

\* C23: while the result of an estimateWait(b) call is held (the limiter
\* and the clock are as the call left them), estimateWait(a).waitMs <=
\* estimateWait(b).waitMs for every a <= b.
C23_EstimateMonotone ==
    estimate.made
    => \A a \in (-1)..estimate.extra :
          estimateWait(Limiter, a, now).result.waitMs <= estimate.waitMs

\* An estimate for MaxExtra extra requests was returned that adds two
\* intervals for them, in a state where a smaller number adds one or none.
C23_Witness ==
    /\ estimate.made
    /\ estimate.extra = MaxExtra
    /\ estimate.extraWaitAfterMs >= 2 * IntervalMs
    /\ estimateWait(Limiter, 1, now).result.waitMs < estimate.waitMs
    /\ estimateWait(Limiter, 0, now).result.waitMs
           < estimateWait(Limiter, 1, now).result.waitMs

\* C24, as stated: estimateWait(0) returns waitMs = 0 whenever fewer than
\* maxRequests executions lie in the current window.
C24_NoWaitWithCapacity ==
    [][(/\ EstimateMade
        /\ estimate'.extra = 0
        /\ Len(PruneOld(requestTimestamps, now)) < MaxRequests)
       => estimate'.waitMs = 0]_vars

\* C24, amended: estimateWait(0) returns waitMs = 0 whenever fewer than
\* maxRequests executions lie in the current window, no cooldown is in
\* progress and fewer than maxRequests tasks are queued ahead.
C24_NoWaitWhenIdle ==
    [][(/\ EstimateMade
        /\ estimate'.extra = 0
        /\ Len(PruneOld(requestTimestamps, now)) < MaxRequests
        /\ ~isCoolingDown
        /\ Len(queue) < MaxRequests)
       => estimate'.waitMs = 0]_vars

\* After a cooldown has ended, with an execution in the window and a task
\* queued ahead, estimateWait(0) has returned waitMs = 0.
C24_Witness ==
    /\ estimate.made
    /\ estimate.extra = 0
    /\ estimate.waitMs = 0
    /\ estimate.active > 0
    /\ estimate.active < MaxRequests
    /\ estimate.queueAhead > 0
    /\ lastDelayMs > 0
    /\ ~isCoolingDown

\* C25, as stated: waitMs is the wait of the current window, plus
\* floor(queueAhead / maxRequests) * intervalMs, plus one intervalMs for
\* every started group of maxRequests among the extra requests beyond the
\* remaining capacity maxRequests - active - queueAhead.
C25_WaitFormula ==
    [][EstimateMade
       => LET queueAhead == Len(queue)
              active == Len(PruneOld(requestTimestamps, now))
              capacity == Max(MaxRequests - active - queueAhead, 0)
              beyond == Max(Max(estimate'.extra, 0) - capacity, 0)
          IN  estimate'.waitMs =
                  WindowWaitMs
                  + (queueAhead \div MaxRequests) * IntervalMs
                  + ((beyond + MaxRequests - 1) \div MaxRequests) * IntervalMs]_vars

\* C25, amended: the base wait is the wait of the current window or, while
\* a cooldown is in progress, the recorded cooldown delay if that is
\* longer; the remaining capacity is maxRequests minus one (the request
\* asked about) minus queueAhead mod maxRequests, whatever the number of
\* executions recorded in the window.
C25_WaitFormulaOfQueue ==
    [][EstimateMade
       => LET queueAhead == Len(queue)
              base == IF isCoolingDown /\ lastDelayMs > WindowWaitMs
                      THEN lastDelayMs ELSE WindowWaitMs
              capacity == Max(MaxRequests - 1 - (queueAhead % MaxRequests), 0)
              beyond == Max(Max(estimate'.extra, 0) - capacity, 0)
          IN  estimate'.waitMs =
                  base
                  + (queueAhead \div MaxRequests) * IntervalMs
                  + ((beyond + MaxRequests - 1) \div MaxRequests) * IntervalMs]_vars

\* An estimate for MaxExtra extra requests was returned during a cooldown
\* with one task queued ahead: no capacity remains, and the estimate is
\* base wait plus two intervals.
C25_Witness ==
    /\ estimate.made
    /\ estimate.extra = MaxExtra
    /\ estimate.coolingDown
    /\ estimate.queueAhead = 1
    /\ estimate.remainingSlotsInWindow = 0
    /\ estimate.baseWaitMs > 0
    /\ estimate.waitMs = estimate.baseWaitMs + 2 * IntervalMs

\* C28: two requests that differ only in the order of the source-id list
\* or in the insertion order of the properties of the filter or plan
\* object get the same key from buildReportJobKey.
C28_KeyOrderIndependent ==
    (keyed.second.made
        /\ DifferOnlyInOrder(keyed.first.params, keyed.second.params))
    => keyed.second.key = keyed.first.key

\* C29: at most one cooldown timer is pending, the cooldown flag is true
\* exactly while one is, and a schedule() call or a task completion that
\* runs the dispatch loop while a timer is pending leaves that timer as
\* it is.
C29_OneCooldownTimer ==
    /\ [](Len(timer) <= 1 /\ (isCoolingDown <=> timer # <<>>))
    /\ [][(/\ timer # <<>>
           /\ \/ nextTask' # nextTask
              \/ \E t \in Tasks : taskState[t] = "running"
                                     /\ taskState'[t] = "settled")
          => (timer' = timer /\ isCoolingDown')]_vars

\* A timer is pending, and both a schedule() call (the second queued
\* task) and a completion (a settled task) have run the dispatch loop
\* since the last dispatch.
C29_Witness ==
    /\ timer # <<>>
    /\ isCoolingDown
    /\ Len(queue) >= 2
    /\ \E t \in Tasks : taskState[t] = "settled"

\* C32: when a dispatched operation rejects or throws, the promise
\* schedule() returned for it rejects with that error, and the dispatch
\* loop runs in the same step: a queued task is dispatched if the window
\* has room, and otherwise is left to the pending cooldown timer.
C32_RejectionPropagates ==
    [][\A t \in Tasks :
          (taskState[t] = "running" /\ taskState'[t] = "settled"
              /\ settlement'.op.kind \in {"rejects", "throws"})
          => /\ settlement'.task = t
             /\ settlement'.promise
                    = [state |-> "rejected", error |-> settlement'.op.error]
             /\ (queue # <<>> /\ Len(PruneOld(requestTimestamps, now)) < MaxRequests)
                    => (queue' = Tail(queue) /\ taskState'[Head(queue)] = "running")
             /\ queue' # <<>> => timer' # <<>>]_vars

\* The first operation to settle threw, its promise rejected, and the
\* dispatch loop run on its completion dispatched the queued task: the
\* cooldown timer armed for that task is still pending.
C32_Witness ==
    /\ settlement.op.kind = "throws"
    /\ settlement.promise.state = "rejected"
    /\ Cardinality({t \in Tasks : taskState[t] = "settled"}) = 1
    /\ Len(started) = MaxRequests + 1
    /\ queue = <<>>
    /\ timer # <<>>

\* The step arms a cooldown timer.
Armed == timer' # <<>> /\ timer' # timer

\* C33: with an onDelay hook that throws, no exception leaves the dispatch
\* loop; a step that enters a cooldown catches the exception, arms the
\* timer and leaves the queue in its order (with the new task at the end
\* if the step is a schedule() call, which is not refused); and the step
\* in which the timer fires dispatches the head of the queue, or, the
\* window having been filled again meanwhile, arms the next timer.
C33_OnDelayErrorContained ==
    /\ [](/\ ~onDelay.escaped
          /\ isCoolingDown => timer # <<>>)
    /\ [][(onDelay.throws /\ ~isCoolingDown /\ isCoolingDown')
          => /\ Armed
             /\ onDelay'.caught
             /\ queue' \in {queue, Append(queue, nextTask)}
             /\ \A t \in Tasks : taskState'[t] # "overflow" \/ taskState[t] = "overflow"]_vars
    /\ [][(onDelay.caught /\ timer # <<>> /\ timer' # timer /\ queue # <<>>)
          => \/ queue' = Tail(queue) /\ taskState'[Head(queue)] = "running"
             \/ queue' = queue /\ Armed /\ Len(requestTimestamps') = MaxRequests]_vars

\* The hook threw when the limiter entered the cooldown for the task over
\* the window; the timer has fired since and the task has been dispatched.
C33_Witness ==
    /\ onDelay.throws
    /\ onDelay.caught
    /\ Len(started) = MaxRequests + 1
    /\ started[MaxRequests + 1].at >= started[1].at + IntervalMs
    /\ queue = <<>>
    /\ timer = <<>>

\* C36: whenever tasks are queued, a cooldown timer is armed or a
\* dispatched task has not completed yet: something is left that will run
\* the dispatch loop again.
C36_QueueNeverStranded ==
    queue # <<>>
    => \/ timer # <<>>
       \/ \E t \in Tasks : taskState[t] = "running"

\* A task is queued and no timer is armed: only the completion of one of
\* the running tasks will run the dispatch loop again.
C36_Witness ==
    /\ queue # <<>>
    /\ timer = <<>>
    /\ \E t \in Tasks : taskState[t] = "running"

\* The step runs the dispatch loop: an accepted schedule() call, the
\* completion of a task, or the callback of the cooldown timer.
Enqueued == nextTask' = nextTask + 1 /\ taskState'[nextTask] # "overflow"

LoopRuns ==
    \/ Enqueued
    \/ \E t \in Tasks : taskState[t] = "running" /\ taskState'[t] = "settled"
    \/ timer # <<>> /\ timer' # timer

\* The free slots of the window when the step begins, and the tasks that
\* are queued when the loop runs.
FreeSlots == MaxRequests - Len(PruneOld(requestTimestamps, now))

QueuedAtLoop == Len(queue) + (IF Enqueued THEN 1 ELSE 0)

\* C37: a step that runs the dispatch loop with k free slots and q queued
\* tasks dispatches min(k, q) tasks, and tasks are never left queued with
\* a free slot and no timer, waiting for a completion.
C37_DrainsCapacity ==
    /\ [][LoopRuns
          => Len(started') - Len(started) >= Min(FreeSlots, QueuedAtLoop)]_vars
    /\ [](queue # <<>> /\ FreeSlots > 0 => timer # <<>>)

\* C27: waitForAll() resolves only in a step that finds the queue empty
\* and no cooldown active, and a call that has not resolved yet resolves
\* in the end (the limiter falls idle once its tasks are dispatched, and
\* the next look of the call finds it so).
C27_WaitForAllResolvesWhenIdle ==
    /\ [][(waiter.pc # "resolved" /\ waiter'.pc = "resolved")
          => (queue = <<>> /\ ~isCoolingDown)]_vars
    /\ [][waiter.pc = "sleeping" /\ waiter' # waiter /\ now' = now
          => /\ now >= waiter.wakeAt
             /\ (queue = <<>> /\ ~isCoolingDown) => waiter'.pc = "resolved"]_vars
    /\ (waiter.pc = "sleeping") ~> (waiter.pc = "resolved")

\* waitForAll() was called during a cooldown with a task queued; it has
\* resolved after the timer fired and the task was dispatched.
C27_Witness ==
    /\ waiter.pc = "resolved"
    /\ cooldownTriggered
    /\ Len(started) = MaxRequests + 1
    /\ queue = <<>>
    /\ ~isCoolingDown

\* ------------------------------------------------ claims: RetryingExecutor

\* C3: one logical call submits at most SALES_DRIVE_MAX_RETRY_ATTEMPTS
\* attempts; when the attempt with that number fails, the call rejects with
\* the error of that attempt, and a call that has rejected submits nothing
\* further.
C3_BoundedAttempts ==
    /\ [](call.attempts <= SALES_DRIVE_MAX_RETRY_ATTEMPTS)
    /\ [][(/\ call.pc = "scheduled"
           /\ call.attempt = SALES_DRIVE_MAX_RETRY_ATTEMPTS
           /\ call'.pc \notin {"scheduled", "done"})
          => /\ call'.pc = "failed"
             /\ call'.thrown = lastError'
             /\ nextTask' = nextTask]_vars
    /\ [][call.pc = "failed"
          => call' = call /\ nextTask' = nextTask /\ started' = started]_vars

\* The last permitted attempt has failed with a retryable status and the
\* call has rejected with it.
C3_Witness ==
    /\ call.pc = "failed"
    /\ call.attempts = SALES_DRIVE_MAX_RETRY_ATTEMPTS
    /\ call.thrown.status = 503
    /\ call.thrown = lastError
    /\ Len(started) = SALES_DRIVE_MAX_RETRY_ATTEMPTS

\* The step is the catch block taking the failure of a dispatched attempt
\* and starting the backoff wait.
Retried == call.pc = "scheduled" /\ call'.pc = "waiting"

\* The step is the end of a backoff wait: the next attempt is submitted.
Resubmitted == call.pc = "waiting" /\ call'.pc # "waiting"

\* C11: a failed attempt is retried only if its error is a network error
\* (error.code) or has an HTTP status in {429, 500, 502, 503, 504}; with any
\* other error, Retry-After header or not, the call rejects at once with
\* that error.
C11_RetryOnlyTransient ==
    [][(call.pc = "scheduled" /\ call'.pc \in {"waiting", "failed"})
       => IF lastError'.code \/ lastError'.status \in {429, 500, 502, 503, 504}
          THEN TRUE
          ELSE call'.pc = "failed" /\ call'.thrown = lastError']_vars

\* C12, as stated: after a failure with a Retry-After hint of d, the next
\* attempt is not submitted before d has elapsed since the failure.
C12_WaitsFullHint ==
    [][(Resubmitted /\ lastError.retryAfterMs # <<>>)
       => now >= call.failedAt + lastError.retryAfterMs[1]]_vars

\* C12, amended: after a failure with a Retry-After hint of d, the next
\* attempt is not submitted before min(d, intervalMs) has elapsed since the
\* failure.
C12_WaitsCappedHint ==
    [][(Resubmitted /\ lastError.retryAfterMs # <<>>)
       => now >= call.failedAt + Min(lastError.retryAfterMs[1], IntervalMs)]_vars

\* The second attempt has been submitted after a failure whose hint was
\* longer than the limiter interval, before the hinted time.
C12_Witness ==
    /\ call.pc = "scheduled"
    /\ call.attempt = 2
    /\ lastError.retryAfterMs = <<RetryAfterHint>>
    /\ RetryAfterHint > IntervalMs
    /\ now >= call.failedAt + IntervalMs
    /\ now < call.failedAt + RetryAfterHint

\* C13: the delay before the next attempt is max(1000, min(x, intervalMs)),
\* x being the Retry-After hint when there is one and otherwise
\* baseDelay * 2^(attempt-1); it lies between the 1000 ms floor and
\* max(1000, intervalMs), and the next attempt is not submitted earlier.
C13_BoundedDelay ==
    /\ [][Retried
          => LET delay == call'.wakeAt - call'.failedAt
                 x == IF lastError'.retryAfterMs # <<>>
                      THEN lastError'.retryAfterMs[1]
                      ELSE SALES_DRIVE_RETRY_BASE_DELAY_MS * 2 ^ (call.attempt - 1)
             IN  /\ delay = Max(MinRetryDelayMs, Min(x, IntervalMs))
                 /\ MinRetryDelayMs <= delay
                 /\ delay <= Max(MinRetryDelayMs, IntervalMs)]_vars
    /\ [][Resubmitted => now >= call.wakeAt]_vars

\* The second attempt has failed without a hint: the exponential delay,
\* above the limiter interval, was cut to the interval and has been waited.
C13_Witness ==
    /\ call.pc = "scheduled"
    /\ call.attempt = 3
    /\ lastError.retryAfterMs = <<>>
    /\ SALES_DRIVE_RETRY_BASE_DELAY_MS * 2 > IntervalMs
    /\ call.wakeAt - call.failedAt = IntervalMs

\* C14: when schedule() rejects an attempt of the call because the queue is
\* full, the call rejects with that overflow error after this one
\* submission, whatever the attempt number, and submits nothing further.
C14_OverflowNotRetried ==
    /\ [][(call' # call /\ nextTask' = nextTask + 1 /\ Len(queue) >= QueueLimit)
          => /\ taskState'[nextTask] = "overflow"
             /\ call'.pc = "failed"
             /\ call'.thrown = OverflowError
             /\ call'.attempts = IF call.pc = "waiting" THEN call.attempts + 1 ELSE 1]_vars
    /\ [][(call.pc = "failed" /\ call.thrown = OverflowError) => call' = call]_vars

\* The second attempt of a call, submitted after a throttled first one,
\* met a full queue, and the call has rejected with the overflow error
\* although attempts remained.
C14_Witness ==
    /\ call.pc = "failed"
    /\ call.thrown = OverflowError
    /\ call.attempt = 2
    /\ call.attempts < SALES_DRIVE_MAX_RETRY_ATTEMPTS
    /\ lastError = OverflowError

\* The step is a consumeSalesDriveRetryFlag() call (with the other reads
\* of buildReportData): the call, the clock and the timer stand still.
Consumed ==
    /\ call' = call
    /\ now' = now
    /\ timer' = timer
    /\ vars' # vars

\* The step is a failed attempt that is retried after call'.wakeAt -
\* call'.failedAt.
Retrying == call.pc = "scheduled" /\ call'.pc = "waiting"

\* C21: the retry flag is consumable exactly once.  A retry sets the flag
\* and raises maxDelayMs to its delay if that is larger; a consume returns
\* the flag and the largest delay as they stand and clears both, so that a
\* consume with no retry since the previous one returns triggered = false
\* and maxDelayMs = 0; nothing else changes the flag.
C21_RetryFlagConsumedOnce ==
    /\ [][Retrying
          => /\ salesDriveRetryState'.triggered
             /\ salesDriveRetryState'.maxDelayMs =
                    Max(salesDriveRetryState.maxDelayMs,
                        call'.wakeAt - call'.failedAt)]_vars
    /\ [][Consumed
          => /\ retrySnapshot'.triggered = salesDriveRetryState.triggered
             /\ retrySnapshot'.maxDelayMs = salesDriveRetryState.maxDelayMs
             /\ salesDriveRetryState' = [triggered |-> FALSE, maxDelayMs |-> 0]]_vars
    /\ [][~Retrying /\ ~Consumed
          => salesDriveRetryState' = salesDriveRetryState]_vars
    /\ [](~salesDriveRetryState.triggered => salesDriveRetryState.maxDelayMs = 0)
    /\ [](retrySnapshot.triggered \/ retrySnapshot.maxDelayMs = 0)

\* A call was retried twice, with the longer delay first; the consume
\* after it returned triggered = true with the longer delay and left the
\* flag cleared.
C21_Witness ==
    /\ call.attempts = SALES_DRIVE_MAX_RETRY_ATTEMPTS
    /\ call.wakeAt - call.failedAt < IntervalMs
    /\ retrySnapshot.triggered
    /\ retrySnapshot.maxDelayMs = IntervalMs
    /\ salesDriveRetryState = [triggered |-> FALSE, maxDelayMs |-> 0]

\* C31: every attempt of the call, first or retry, is a schedule() call of
\* its own (a new task, which the limiter queues, runs or refuses); every
\* operation that runs was dispatched by the limiter exactly once, with a
\* start timestamp of its own; and no window of length IntervalMs holds
\* more than MaxRequests starts, retries counted.
C31_RetriesThroughScheduler ==
    /\ [](/\ \A i \in 1..Len(started) : StartsInWindow(started[i].at) <= MaxRequests
          /\ \A t \in Tasks :
                 Cardinality({i \in 1..Len(started) : started[i].task = t})
                     = IF taskState[t] \in {"running", "settled"} THEN 1 ELSE 0
          /\ Len(requestTimestamps) <= MaxRequests)
    /\ [][(call'.attempts # call.attempts \/ call'.attempt # call.attempt)
          => /\ nextTask' = nextTask + 1
             /\ taskState[nextTask] = "new"
             /\ taskState'[nextTask] \in {"queued", "running", "overflow"}
             /\ taskState'[nextTask] = "running"
                    => /\ started'[Len(started')].task = nextTask
                       /\ requestTimestamps'[Len(requestTimestamps')]
                              = started'[Len(started')].at]_vars

\* A retry is running that the limiter dispatched into a window filled to
\* the ceiling, after an attempt had been held back by a cooldown.
C31_Witness ==
    /\ call.pc = "scheduled"
    /\ call.attempt >= 2
    /\ taskState[call.task] = "running"
    /\ started[Len(started)].task = call.task
    /\ StartsInWindow(started[Len(started)].at) = MaxRequests
    /\ cooldownTriggered

\* The step is the failure of the request of attempt k < maxAttempts with
\* a network error, a timeout or one of the retryable statuses.
FailedTransiently ==
    /\ call.pc = "scheduled"
    /\ call'.pc \in {"waiting", "failed"}
    /\ taskState[call.task] = "running"
    /\ call.attempt < SALES_DRIVE_MAX_RETRY_ATTEMPTS
    /\ lastError'.code \/ lastError'.status \in {429, 500, 502, 503, 504}

\* C30: when attempt k < maxAttempts fails with a network error, a timeout
\* or HTTP status 429, 500, 502, 503 or 504, the call does not reject but
\* waits; the wait ends, not before the backoff delay is over, and the
\* step that ends it submits attempt k+1 to the scheduler (which runs it
\* or, its queue being full, refuses it).
C30_TransientFailureRetried ==
    /\ [][FailedTransiently
          => /\ call'.pc = "waiting"
             /\ call'.attempt = call.attempt
             /\ call'.wakeAt >= now']_vars
    /\ [][(call.pc = "waiting" /\ call'.pc # "waiting")
          => /\ now >= call.wakeAt
             /\ call'.attempt = call.attempt + 1
             /\ nextTask' = nextTask + 1
             /\ \/ call'.pc = "scheduled" /\ call'.task = nextTask
                \/ call'.pc = "failed" /\ call'.thrown = OverflowError]_vars
    /\ (call.pc = "waiting") ~> (call.pc # "waiting")

\* The third attempt has been submitted: the first two were dispatched
\* and failed, the second with a network error or a timeout.
C30_Witness ==
    /\ call.pc = "scheduled"
    /\ call.attempt = SALES_DRIVE_MAX_RETRY_ATTEMPTS
    /\ call.attempts = SALES_DRIVE_MAX_RETRY_ATTEMPTS
    /\ lastError.code
    /\ lastError.status = 0
    /\ \E i \in 1..Len(started) : started[i].task = 2

\* ---------------------------------------------------- claims: QuotaTracker

\* The number of recorded starts in the hour / day of the i-th start.
StartsInHourOf(i) ==
    Cardinality({j \in 1..Len(started) :
                    alignToHour(started[j].at) = alignToHour(started[i].at)})

StartsInDayOf(i) ==
    Cardinality({j \in 1..Len(started) :
                    alignToDay(started[j].at) = alignToDay(started[i].at)})

\* The step runs noteHourlyRequest / noteDailyRequest.
NotedHourly ==
    \/ salesDriveHourlyWindow'.count > salesDriveHourlyWindow.count
    \/ /\ salesDriveHourlyWindow'.startedAt # salesDriveHourlyWindow.startedAt
       /\ salesDriveHourlyWindow'.count > 0

NotedDaily ==
    \/ salesDriveDailyWindow'.count > salesDriveDailyWindow.count
    \/ /\ salesDriveDailyWindow'.startedAt # salesDriveDailyWindow.startedAt
       /\ salesDriveDailyWindow'.count > 0

\* The step dispatches a task.
Dispatched == Len(started') > Len(started)

AttemptSettled ==
    /\ call.pc = "scheduled"
    /\ taskState[call.task] = "running"
    /\ call'.pc # "scheduled"

C19_BoundaryReset ==
    /\ [][(hourlyStats' # hourlyStats
           /\ alignToHour(hourlyStats'.at) # salesDriveHourlyWindow.startedAt)
          => /\ salesDriveHourlyWindow'.startedAt = alignToHour(hourlyStats'.at)
             /\ hourlyStats'.resetAt =
                    alignToHour(hourlyStats'.at) + SALES_DRIVE_HOURLY_WINDOW_MS
             /\ IF hourlyStats'.op = "get"
                THEN /\ salesDriveHourlyWindow'.count = 0
                     /\ hourlyStats'.used = 0
                     /\ hourlyStats'.remaining = SALES_DRIVE_HOURLY_LIMIT
                ELSE /\ salesDriveHourlyWindow'.count = 1
                     /\ hourlyStats'.used = 1]_vars
    /\ [][(dailyStats' # dailyStats
           /\ alignToDay(dailyStats'.at) # salesDriveDailyWindow.startedAt)
          => /\ salesDriveDailyWindow'.startedAt = alignToDay(dailyStats'.at)
             /\ dailyStats'.resetAt =
                    alignToDay(dailyStats'.at) + SALES_DRIVE_DAILY_WINDOW_MS
             /\ IF dailyStats'.op = "get"
                THEN /\ salesDriveDailyWindow'.count = 0
                     /\ dailyStats'.used = 0
                     /\ dailyStats'.remaining = SALES_DRIVE_DAILY_LIMIT
                ELSE /\ salesDriveDailyWindow'.count = 1
                     /\ dailyStats'.used = 1]_vars
    /\ [](/\ salesDriveHourlyWindow.startedAt = alignToHour(salesDriveHourlyWindow.startedAt)
          /\ salesDriveDailyWindow.startedAt = alignToDay(salesDriveDailyWindow.startedAt))

\* Calls were started in the first hour of the first day; a read in a
\* later hour of the next day has returned used = 0 for both windows.
C19_Witness ==
    /\ Len(started) >= MaxRequests
    /\ started[Len(started)].at < SALES_DRIVE_HOURLY_WINDOW_MS
    /\ hourlyStats.op = "get"
    /\ dailyStats.op = "get"
    /\ dailyStats.at >= SALES_DRIVE_DAILY_WINDOW_MS
    /\ hourlyStats.used = 0
    /\ dailyStats.used = 0
    /\ salesDriveHourlyWindow = [startedAt |-> alignToHour(now), count |-> 0]
    /\ salesDriveDailyWindow = [startedAt |-> alignToDay(now), count |-> 0]

\* C20: every stats object returned satisfies 0 <= used <= limit and
\* remaining = limit - used >= 0, also when the window has counted more
\* requests than the limit.
C20_StatsClamped ==
    /\ hourlyStats.op # "none"
       => /\ hourlyStats.limit = SALES_DRIVE_HOURLY_LIMIT
          /\ 0 <= hourlyStats.used
          /\ hourlyStats.used <= hourlyStats.limit
          /\ hourlyStats.remaining = hourlyStats.limit - hourlyStats.used
          /\ hourlyStats.remaining >= 0
    /\ dailyStats.op # "none"
       => /\ dailyStats.limit = SALES_DRIVE_DAILY_LIMIT
          /\ 0 <= dailyStats.used
          /\ dailyStats.used <= dailyStats.limit
          /\ dailyStats.remaining = dailyStats.limit - dailyStats.used
          /\ dailyStats.remaining >= 0

\* Both windows have counted more requests than their limits, and a read
\* has returned used = limit and remaining = 0 for both.
C20_Witness ==
    /\ salesDriveHourlyWindow.count > SALES_DRIVE_HOURLY_LIMIT
    /\ salesDriveDailyWindow.count > SALES_DRIVE_DAILY_LIMIT
    /\ hourlyStats.op = "get"
    /\ hourlyStats.used = SALES_DRIVE_HOURLY_LIMIT
    /\ hourlyStats.remaining = 0
    /\ dailyStats.op = "get"
    /\ dailyStats.used = SALES_DRIVE_DAILY_LIMIT
    /\ dailyStats.remaining = 0

\* -------------------------------------------------------- claims: JobCache

\* The cache holds Job j under its key.
InCache(j) == jobs[j].status # "none" /\ reportJobs[jobs[j].key] = j

\* C34: a ready or error Job that is in the cache has its cleanup timer
\* armed, for REPORT_JOB_TTL_MS resp. REPORT_JOB_ERROR_TTL_MS after it
\* became terminal; and no terminal Job stays in the cache for ever: it is
\* removed by its timer or replaced by a later call.
C34_TerminalJobEvicted ==
    /\ [](\A j \in JobIds :
             (InCache(j) /\ jobs[j].status \in {"ready", "error"})
             => jobs[j].cleanupTimer.state = "armed")
    /\ [][\A j \in JobIds :
             (jobs[j].status = "pending" /\ jobs'[j].status \in {"ready", "error"})
             => /\ jobs'[j].cleanupTimer.state = "armed"
                /\ jobs'[j].cleanupTimer.at
                       = now + (IF jobs'[j].status = "ready"
                                THEN REPORT_JOB_TTL_MS
                                ELSE REPORT_JOB_ERROR_TTL_MS)]_vars
    /\ \A j \in JobIds :
           []<>(~(InCache(j) /\ jobs[j].status \in {"ready", "error"}))

\* C35: an entry is removed without a call only by the cleanup timer of
\* the Job it holds; a Job that has been replaced has no timer armed; and
\* the step in which a timer fires leaves the entry of every other Job,
\* the fresh Job under the same key included, as it is.
C35_TimerEvictsOwnJobOnly ==
    /\ [](\A j \in JobIds :
             jobs[j].cleanupTimer.state = "armed" => InCache(j))
    /\ [][\A k \in Keys :
             (reportJobs[k] # 0 /\ reportJobs'[k] = 0)
             => /\ jobs[reportJobs[k]].cleanupTimer.state = "armed"
                /\ jobs'[reportJobs[k]].cleanupTimer.state = "fired"
                /\ now >= jobs[reportJobs[k]].cleanupTimer.at]_vars
    /\ [][\A j \in JobIds :
             (jobs[j].cleanupTimer.state = "armed"
                 /\ jobs'[j].cleanupTimer.state = "fired")
             => \A k \in Keys : reportJobs[k] # j => reportJobs'[k] = reportJobs[k]]_vars

\* A stale Job was replaced by a fresh Job under its key; the fresh Job is
\* terminal and still in the cache after the time at which the timer of
\* the old Job, had it not been cleared, was due.
C35_Witness ==
    /\ jobs[1].cleanupTimer.state = "cleared"
    /\ jobs[2].key = jobs[1].key
    /\ reportJobs[jobs[1].key] = 2
    /\ jobs[2].status = "ready"
    /\ jobs[2].cleanupTimer.state = "armed"

\* The cleanup timer of an error Job has fired and removed its entry, with
\* no call replacing the Job: it is the only Job ever made.
C34_Witness ==
    /\ jobs[1].status = "error"
    /\ jobs[1].cleanupTimer.state = "fired"
    /\ reportJobs[jobs[1].key] = 0
    /\ nextJob = 2

\* The step is the builder of Job j throwing.
BuilderThrows(j) == jobs[j].status = "pending" /\ jobs'[j].status = "error"

IsCall(k) == nCalls' # nCalls /\ ret'.key = k

\* The Job the cache holds for key k before the step (0: none).
Cached(k) == reportJobs[k]

\* Staleness as the specification states it.
IsStale(job, t) ==
    \/ job.status = "ready" /\ t - job.updatedAt > REPORT_JOB_TTL_MS
    \/ job.status = "error" /\ t - job.updatedAt > REPORT_JOB_ERROR_TTL_MS

\* The step creates a new Job for key k, invokes the builder on it once and
\* returns it, pending.
CreatesFreshJob(k) ==
    /\ ret'.job = nextJob
    /\ nextJob' = nextJob + 1
    /\ jobs[nextJob].status = "none"
    /\ jobs'[nextJob].status = "pending"
    /\ jobs'[nextJob].key = k
    /\ ret'.status = "pending"
    /\ reportJobs'[k] = nextJob
    /\ builderCalls[nextJob] = 0
    /\ builderCalls' = [builderCalls EXCEPT ![nextJob] = 1]

\* C2: a getOrCreateReportJob call on a key whose Job is still pending
\* returns that Job and does not invoke the builder; every Job's builder is
\* invoked exactly once.
C2_SingleFlight ==
    /\ [][\A k \in Keys :
            (IsCall(k) /\ Cached(k) # 0 /\ jobs[Cached(k)].status = "pending")
            => /\ ret'.job = Cached(k)
               /\ builderCalls' = builderCalls
               /\ reportJobs' = reportJobs]_vars
    /\ [](\A j \in JobIds :
            builderCalls[j] = IF jobs[j].status = "none" THEN 0 ELSE 1)

\* Two calls have been made, only one Job exists and it is still pending:
\* the second caller was given the first caller's Job.
C2_Witness ==
    /\ nCalls = 0
    /\ ret.job = 1
    /\ nextJob = 2
    /\ jobs[1].status = "pending"
    /\ now - jobs[1].updatedAt > REPORT_JOB_TTL_MS

\* C7: the status of a Job changes only from pending to ready or from
\* pending to error (after its creation as pending); a ready or error Job
\* keeps its status for ever.
C7_OneTransition ==
    [][\A j \in JobIds :
         jobs'[j].status # jobs[j].status
         => \/ jobs[j].status = "none" /\ jobs'[j].status = "pending"
            \/ jobs[j].status = "pending" /\ jobs'[j].status \in {"ready", "error"}]_vars

\* A Job that became ready has been evicted and replaced, and is still ready.
C7_Witness ==
    \E i, j \in JobIds :
        /\ i # j
        /\ jobs[i].status = "ready"
        /\ jobs[j].key = jobs[i].key
        /\ reportJobs[jobs[i].key] = j
        /\ jobs[j].status = "error"

\* C8: a call on a key whose cached Job is not stale (pending, ready within
\* the success TTL, error within the error TTL) returns that Job, invokes no
\* builder and leaves the cache and the Jobs as they were.
C8_FreshHit ==
    [][\A k \in Keys :
         (IsCall(k) /\ Cached(k) # 0 /\ ~IsStale(jobs[Cached(k)], now))
         => /\ ret'.job = Cached(k)
            /\ ret'.status = jobs[Cached(k)].status
            /\ builderCalls' = builderCalls
            /\ reportJobs' = reportJobs
            /\ jobs' = jobs
            /\ nextJob' = nextJob]_vars

\* A caller has been served a cached error Job whose age equals the error
\* TTL.
C8_Witness ==
    /\ ret.status = "error"
    /\ reportJobs[ret.key] = ret.job
    /\ now - jobs[ret.job].updatedAt = REPORT_JOB_ERROR_TTL_MS

\* C9: a call on a key whose cached Job is stale, or whose entry a cleanup
\* timer has removed, drops the stale entry (and its timer), invokes the
\* builder again and returns a new pending Job.
C9_StaleRebuild ==
    [][\A k \in Keys :
         (IsCall(k) /\ (Cached(k) = 0 \/ IsStale(jobs[Cached(k)], now)))
         => /\ CreatesFreshJob(k)
            /\ ret'.job # Cached(k)
            /\ Cached(k) # 0 => jobs'[Cached(k)].cleanupTimer.state = "cleared"]_vars

\* A stale ready Job, still cached because its timer was late, has been
\* replaced on access by the Job the last call returned.
C9_Witness ==
    \E i \in JobIds :
        /\ jobs[i].status = "ready"
        /\ jobs[i].cleanupTimer.state = "cleared"
        /\ jobs[i].key = ret.key
        /\ ret.job # i
        /\ ret.status = "pending"
        /\ reportJobs[ret.key] = ret.job

\* C10: a Job is put into the cache only by a call that finds no entry for
\* the key or a stale one, and it is a new Job; a pending Job is never
\* removed or replaced, so each key has at most one pending Job, the cached
\* one.
C10_CreateOnlyAfterEviction ==
    /\ [][\A k \in Keys :
            (reportJobs'[k] # reportJobs[k] /\ reportJobs'[k] # 0)
            => /\ IsCall(k)
               /\ Cached(k) = 0 \/ IsStale(jobs[Cached(k)], now)
               /\ CreatesFreshJob(k)]_vars
    /\ [][\A k \in Keys :
            (Cached(k) # 0 /\ jobs[Cached(k)].status = "pending")
            => reportJobs'[k] = reportJobs[k]]_vars
    /\ [](\A i, j \in JobIds :
            (jobs[i].status = "pending" /\ jobs[j].status = "pending"
             /\ jobs[i].key = jobs[j].key) => i = j)
    /\ [](\A j \in JobIds :
            jobs[j].status = "pending" => reportJobs[jobs[j].key] = j)

\* A key has had two Jobs: the first was evicted by its cleanup timer, the
\* second is pending in the cache and older than the success TTL.
C10_Witness ==
    \E i, j \in JobIds :
        /\ i # j
        /\ jobs[i].key = jobs[j].key
        /\ jobs[i].cleanupTimer.state = "fired"
        /\ reportJobs[jobs[j].key] = j
        /\ jobs[j].status = "pending"
        /\ now - jobs[j].updatedAt > REPORT_JOB_TTL_MS

\* A call stands inside runMonthlyScheduleJobInternal: a run is in progress.
InJob(r) == runs[r].pc \in {"jobLoad", "jobBody", "jobCatch"}

\* C38: once a call of runMonthlyScheduleJobInternal has finished, however
\* it ended, schedulerState.isRunning is false again: isRunning is true
\* only while some call is inside the job, so that no trigger is answered
\* with 'busy' when no run is in progress.
C38_IsRunningReset ==
    schedulerState.isRunning => \E r \in RunIds : InJob(r)

\* C39: at most one automatic-run timer of the monthly scheduler is pending
\* at any time, for every interleaving of the scheduleNextRun calls.
C39_OneScheduleTimer ==
    Cardinality(eventLoop.timers) <= 1

====
